---- MODULE Spec2Model ----
(***************************************************************************)
(* A model of the EnriLSP coordinator (src/src/lsp/client.ts, LspClient):  *)
(* the registry of backend processes, the start de-duplication, the        *)
(* request/response correlation with timeouts, the handling of messages    *)
(* that arrive from a backend, and the dispatch of the lookup operations   *)
(* (definition, references, rename, document symbols) over the routed      *)
(* backends.                                                               *)
(*                                                                         *)
(* One step of the model is one turn of the event loop: the code that runs *)
(* between two suspension points (an I/O completion, a timer, a process    *)
(* event, a new API call).                                                 *)
(***************************************************************************)
EXTENDS Integers, Sequences, FiniteSets, TLC

(***************************************************************************)
(* Bounds of the model.                                                    *)
(***************************************************************************)
MaxProc == 3        \* processes spawned in one run
MaxId == 4          \* requests sent in one run (ids 1..MaxId)
NumOps == 1         \* operation calls in one run of Spec
NumConcurrent == 2  \* operation calls in one run of SpecConcurrent
MaxFaults == 2      \* process exits, request timeouts and server-initiated
                    \* requests in one run, taken together
MaxStray == 1       \* responses with an id that was never sent, in one run

(***************************************************************************)
(* The backends that can be configured for the one file of the model, in   *)
(* routed order (most specific first); the first one has a settle delay.   *)
(* this.config.servers is a prefix of this list, chosen by Init.  A key of *)
(* the registry is the index of a backend: one file, so one root each.     *)
(***************************************************************************)
configs ==
  << [name |-> "primary", warmupMs |-> 500, extensions |-> << "TS", "js" >>],
     [name |-> "secondary", warmupMs |-> 0, extensions |-> << "ts" >>] >>

Configurations == {SubSeq(configs, 1, n) : n \in 1..Len(configs)}

Cfg == 1..Len(configs)
Proc == 1..MaxProc

(***************************************************************************)
(* Capability sets.  A capability set is a map from provider keys to JSON  *)
(* values; "undefined" stands for a key that is not in the object.         *)
(***************************************************************************)
CapKeys ==
  {"definitionProvider", "referencesProvider", "renameProvider",
   "documentSymbolProvider", "hoverProvider"}

EmptyCaps == [k \in CapKeys |-> "undefined"]

\* A backend that renames and lists symbols but does not navigate.
PartialCaps ==
  [k \in CapKeys |->
     CASE k = "definitionProvider" -> "false"
       [] k = "referencesProvider" -> "null"
       [] k = "renameProvider" -> "object"
       [] k = "documentSymbolProvider" -> "true"
       [] OTHER -> "undefined"]

CapChoices == {EmptyCaps, PartialCaps}

\* serverAdvertisedCapability(state, key)
serverAdvertisedCapability(caps, key) ==
  LET hasCaps == \E k \in CapKeys : caps[k] # "undefined"
      raw == caps[key]
  IN IF ~hasCaps THEN TRUE
     ELSE IF raw \in {"undefined", "null"} THEN FALSE
     ELSE IF raw \in {"true", "false"} THEN raw = "true"
     ELSE TRUE

(***************************************************************************)
(* The lookup operations: the request each one sends and the capability    *)
(* it needs.                                                               *)
(***************************************************************************)
OpKinds == {"definition", "references", "rename", "documentSymbol"}

OpMethod(kind) == "textDocument/" \o kind

OpCapability(kind) == kind \o "Provider"

ServerMethods == {"window/workDoneProgress/create"}

(***************************************************************************)
(* JSON values of the model.  A message is a record with the four fields   *)
(* of LspMessage; id 0 and method "" stand for an absent field.            *)
(***************************************************************************)
Undefined == [kind |-> "undefined", caps |-> EmptyCaps, forId |-> 0]

NoState ==
  [config |-> 0, alive |-> FALSE, phase |-> "none", initialized |-> FALSE,
   capabilities |-> EmptyCaps, openFiles |-> FALSE, fileVersions |-> 0,
   stdin |-> << >>, diagnostics |-> << >>, published |-> << >>,
   killed |-> FALSE, text |-> << >>]

IdleOp ==
  [kind |-> "definition", pc |-> "idle", idx |-> 0, fallback |-> FALSE,
   proc |-> 0, req |-> 0, tried |-> << >>, status |-> "none",
   error |-> "none", reasons |-> << >>, opened |-> FALSE, merged |-> << >>,
   message |-> << >>, text |-> << >>]

VARIABLES
  config,            \* this.config.servers, routed and ordered for the file
  state,             \* ServerState of every spawned process
  nprocs,            \* number of processes spawned so far
  servers,           \* this.servers: key -> registered instance (0: none)
  serversStarting,   \* this.serversStarting: key -> start in flight (0: none)
  nextId,            \* this.nextId
  pendingRequests,   \* this.pendingRequests: id -> the promise it settles
  timers,            \* the promises whose timeout timer is armed
  requests,          \* one record per request sent: the promise of sendRequest
  answered,          \* the requests a backend has already responded to
  ops,               \* the operation calls
  srvLog,            \* the server-initiated requests received so far
  nstray,            \* number of responses received for ids never sent
  restarted,         \* the calls of restartServers: argument and evicted keys
  codec,             \* the stdout stream of one backend and its decoder
  router,            \* one routing of a file over the configured backends
  tool,              \* one rename_symbol call of the tool server
  applier,           \* one call of the workspace edit applier
  pruner,            \* one run of the prune command
  resolver           \* the workspace root cache and the lookups made of it

vars ==
  << config, state, nprocs, servers, serversStarting, nextId, pendingRequests, timers,
     requests, answered, ops, srvLog, nstray, restarted, codec, router, tool,
     applier, pruner, resolver >>

\* What the handlers of the coordinator leave alone.
outside ==
  << config, nstray, restarted, codec, router, tool, applier, pruner,
     resolver >>

\* The decoder before any byte has arrived.
NoStream ==
  [stream |-> << >>, sent |-> << >>, pos |-> 0, buffer |-> << >>,
   handled |-> << >>]

\* No routing asked for.
NoRoute == [servers |-> << >>, filePath |-> << >>, ordered |-> << >>,
            done |-> FALSE]

\* No tool call made.
NoTool ==
  [symbols |-> << >>, symbol_name |-> "", symbol_kind |-> "", pc |-> "idle",
   matches |-> << >>, response |-> "none", candidates |-> << >>,
   dry_run |-> FALSE, edit |-> << >>, documentChanges |-> << >>,
   fileCount |-> 0, appliedAt |-> << >>]

\* The workspace root cache before any lookup, over no file system.
NoResolver ==
  [markers |-> << >>, cache |-> [x \in {} |-> 0], lookups |-> << >>]

\* The prune command before it is run.
NoPrune ==
  [platform |-> "linux", canPrompt |-> FALSE, argvFull |-> << >>,
   exists |-> {}, pc |-> "done", args |-> [help |-> FALSE, list |-> FALSE,
     dryRun |-> FALSE, yes |-> FALSE, all |-> FALSE, targets |-> << >>],
   selected |-> << >>, queue |-> << >>, confirm |-> "none", exitCode |-> 0,
   deleted |-> << >>]

\* No edit to apply.
NoEdit == [content |-> << >>, edits |-> << >>, done |-> FALSE,
           out |-> [threw |-> FALSE, text |-> << >>]]

Init ==
  /\ config \in Configurations
  /\ state = [p \in Proc |-> NoState]
  /\ nprocs = 0
  /\ servers = [k \in Cfg |-> 0]
  /\ serversStarting = [k \in Cfg |-> 0]
  /\ nextId = 1
  /\ pendingRequests = [x \in {} |-> 0]
  /\ timers = {}
  /\ requests = << >>
  /\ answered = {}
  /\ ops = [o \in 1..NumOps |-> IdleOp]
  /\ srvLog = << >>
  /\ nstray = 0
  /\ restarted = << >>
  /\ codec = NoStream
  /\ pruner = NoPrune
  /\ resolver = NoResolver
  /\ router = NoRoute
  /\ tool = NoTool
  /\ applier = NoEdit

(***************************************************************************)
(* Writing to a backend: sendMessage appends one message to the stdin of   *)
(* the process.  A written message is [id, method, op, version]: a request *)
(* has an id and a method, a notification only a method, a response only   *)
(* an id.  op is the operation call that sent it (0: none).                *)
(***************************************************************************)
Msg(id, method, op, version) ==
  [id |-> id, method |-> method, op |-> op, version |-> version]

sendMessage(st, p, msg) ==
  [st EXCEPT ![p].stdin = Append(@, msg)]

sendNotification(st, p, method, version) ==
  sendMessage(st, p, Msg(0, method, 0, version))

\* `await readFile(absolutePath, "utf8")` for the document of the calls: the
\* content of file 1 of the disk the applier writes to, and the empty text
\* where no disk is part of the run.
readFile ==
  IF "files" \in DOMAIN applier THEN applier.files[1].content ELSE << >>

\* Map<LspId, PendingRequest>: set, delete.
MapSet(m, k, v) ==
  [x \in (DOMAIN m) \cup {k} |-> IF x = k THEN v ELSE m[x]]

\* A delete that leaves the entry in the map.
MapDeleteNothing(m, k) == m

MapDelete(m, k) ==
  [x \in (DOMAIN m) \ {k} |-> m[x]]

\* The timeoutMs argument of the sendRequest calls, in milliseconds.
InitializeTimeoutMs == 30000

DefinitionTimeoutMs == 30000

ReferencesTimeoutMs == 30000

RenameTimeoutMs == 60000

DocumentSymbolTimeoutMs == 30000

\* The timeoutMs the callers of sendRequest pass for a method.
timeoutMs(method) ==
  CASE method = "initialize" -> InitializeTimeoutMs
    [] method = "textDocument/definition" -> DefinitionTimeoutMs
    [] method = "textDocument/references" -> ReferencesTimeoutMs
    [] method = "textDocument/rename" -> RenameTimeoutMs
    [] method = "textDocument/documentSymbol" -> DocumentSymbolTimeoutMs

\* A fresh promise of sendRequest.
NewRequest(id, p, method, o) ==
  [id |-> id, proc |-> p, method |-> method, op |-> o, outcome |-> "pending",
   result |-> Undefined, settles |-> 0, settledBy |-> 0, orphaned |-> FALSE,
   timeoutMs |-> timeoutMs(method)]

\* `this.nextId++`
NextIdAfter(id) == id + 1

\* sendRequest: allocate the id, arm the timer, register the pending entry.
\* (The write of the message is part of the caller's update of state.)
\* The pending entry and the timer are closures over the promise of this
\* call, named here by its index in requests.
sendRequest(p, method, o) ==
  LET rid == Len(requests) + 1
  IN /\ nextId <= MaxId
     /\ rid <= MaxId
     /\ nextId' = NextIdAfter(nextId)
     /\ pendingRequests' = MapSet(pendingRequests, nextId, rid)
     /\ timers' = timers \cup {rid}
     /\ requests' = Append(requests, NewRequest(nextId, p, method, o))

(***************************************************************************)
(* The candidate loop of findDefinition / findReferences / renameSymbol /  *)
(* getDocumentSymbols.                                                     *)
(***************************************************************************)
Tried(op, outcome) ==
  Append(op.tried, [cfg |-> op.idx, proc |-> op.proc, outcome |-> outcome])

\* The operation returns.
Return(op, status, error, reasons) ==
  [op EXCEPT !.pc = "done", !.status = status, !.error = error,
             !.reasons = reasons, !.req = 0]

\* The characters of "No LSP server configured for file: ".
NoServerText ==
  << "N", "o", " ", "L", "S", "P", " ", "s", "e", "r", "v", "e", "r", " ",
     "c", "o", "n", "f", "i", "g", "u", "r", "e", "d", " ", "f", "o", "r", " ",
     "f", "i", "l", "e", ":", " " >>

\* `throw new Error(`No LSP server configured for file: ${filePath}`)` when
\* the routed list is empty; router.filePath is the path of the call.
NoServerConfigured(op) ==
  [Return(op, "error", "routing", << >>) EXCEPT
     !.message = NoServerText \o router.filePath]

\* `continue` (or the empty catch) in the loop over the routed configs; after
\* the last candidate getDocumentSymbols returns [], the other three fall
\* back to getServer(filePath), the first routed config.  In
\* getServerStatesForFile (kind "diagnostics") the loop collects the states
\* and the errors, and throws after the last candidate when no state was
\* collected.
NextCandidate(op, outcome) ==
  LET t == Tried(op, outcome)
  IN IF op.idx < Len(config)
     THEN [op EXCEPT !.pc = "acquire", !.idx = @ + 1, !.tried = t,
                     !.proc = 0, !.req = 0]
     ELSE IF op.kind = "documentSymbol"
     THEN [Return(op, "empty", "none", << >>) EXCEPT !.tried = t]
     ELSE IF op.kind \in {"diagnostics", "sync"}
     THEN IF \A j \in DOMAIN t : t[j].outcome # "started"
          THEN [Return(op, "error", "aggregate",
                       [j \in DOMAIN t |-> t[j].outcome]) EXCEPT !.tried = t]
          ELSE [op EXCEPT !.pc = IF op.kind = "sync" THEN "syncEach"
                                 ELSE "openEach",
                          !.idx = 1, !.tried = t, !.proc = 0]
     ELSE [op EXCEPT !.pc = "acquire", !.fallback = TRUE, !.idx = 1,
                     !.tried = t, !.proc = 0, !.req = 0]

\* A capability gap that ends the operation instead of moving on.
OnDeniedAbort(op) ==
  [Return(op, "error", "single", << "denied" >>) EXCEPT
     !.tried = Tried(op, "denied")]

\* `if (!this.serverAdvertisedCapability(state, ...)) continue;`
OnDenied(op) == NextCandidate(op, "denied")

\* The config an operation call is acquiring.
OpConfig(op) == op.idx

Waiting(o, p) == ops[o].pc = "awaitStart" /\ ops[o].proc = p

(***************************************************************************)
(* The tail of getServerForConfig, run when the start promise settles.     *)
(***************************************************************************)
\* startPromise resolved: this.servers.set(key, state),
\* this.serversStarting.delete(key); every awaiter receives the state.
StartResolved(p) ==
  LET k == state[p].config
  IN /\ servers' = [servers EXCEPT ![k] = p]
     /\ serversStarting' = [serversStarting EXCEPT ![k] = 0]
     /\ ops' = [o \in DOMAIN ops |->
                  IF Waiting(o, p) THEN [ops[o] EXCEPT !.pc = "gotState"]
                  ELSE ops[o]]

\* A rejected start that leaves the in-flight marker in place.
StartRejectedKeepsMarker(p, reason) ==
  /\ UNCHANGED << servers, serversStarting >>
  /\ ops' = [o \in DOMAIN ops |->
               IF ~Waiting(o, p) THEN ops[o]
               ELSE IF ops[o].fallback
               THEN Return(ops[o], "error", "single", << reason >>)
               ELSE NextCandidate(ops[o], "startFailed")]

\* startPromise rejected: this.serversStarting.delete(key) and rethrow; in the
\* loop the error is swallowed, in the fallback it leaves the operation.
StartRejected(p, reason) ==
  LET k == state[p].config
  IN /\ serversStarting' = [serversStarting EXCEPT ![k] = 0]
     /\ UNCHANGED servers
     /\ ops' = [o \in DOMAIN ops |->
                  IF ~Waiting(o, p) THEN ops[o]
                  ELSE IF ops[o].fallback
                  THEN Return(ops[o], "error", "single", << reason >>)
                  ELSE NextCandidate(ops[o], "startFailed")]

(***************************************************************************)
(* What runs when the promise of request id settles.                       *)
(***************************************************************************)
\* An initializeServer that returns at once, whatever the settle delay.
InitializeSettledUnheld(p, ok, result, reason) ==
  IF ok
  THEN LET caps == IF result.kind = "object" THEN result.caps
                   ELSE state[p].capabilities
           warm == config[state[p].config].warmupMs > 0
           st == sendNotification(state, p, "initialized", 0)
       IN /\ state' = [st EXCEPT ![p].capabilities = caps,
                                 ![p].initialized = TRUE,
                                 ![p].phase = IF warm THEN "warmup" ELSE "ready"]
          /\ StartResolved(p)
  ELSE /\ state' = [state EXCEPT ![p].phase = "failed"]
       /\ StartRejected(p, reason)

\* initializeServer after `await this.sendRequest(..., "initialize", ...)`.
InitializeSettled(p, ok, result, reason) ==
  IF ok
  THEN LET caps == IF result.kind = "object" THEN result.caps
                   ELSE state[p].capabilities
           warm == config[state[p].config].warmupMs > 0
           st == sendNotification(state, p, "initialized", 0)
       IN /\ state' = [st EXCEPT ![p].capabilities = caps,
                                 ![p].initialized = TRUE,
                                 ![p].phase = IF warm THEN "warmup" ELSE "ready"]
          /\ IF warm THEN UNCHANGED << servers, serversStarting, ops >>
             ELSE StartResolved(p)
  ELSE /\ state' = [state EXCEPT ![p].phase = "failed"]
       /\ StartRejected(p, reason)

\* The operation after `await this.sendRequest(...)`.
RequestSettled(o, ok, result, reason) ==
  LET op == ops[o]
      new == IF ok
             THEN IF ~op.fallback /\ op.kind = "documentSymbol"
                     /\ result.kind # "array"
                  THEN NextCandidate(op, "notArray")
                  ELSE [Return(op, "ok", "none", << >>) EXCEPT
                          !.tried = IF op.fallback THEN op.tried
                                    ELSE Tried(op, "ok")]
             ELSE IF op.fallback
             THEN Return(op, "error", "single", << reason >>)
             ELSE NextCandidate(op, reason)
  IN /\ ops' = [ops EXCEPT ![o] = new]
     /\ UNCHANGED << state, servers, serversStarting >>

Continue(id, ok, result, reason) ==
  LET r == requests[id]
  IN IF r.op = 0 THEN InitializeSettled(r.proc, ok, result, reason)
     ELSE RequestSettled(r.op, ok, result, reason)

(***************************************************************************)
(* Settling the promise of a request.  The promise keeps its first         *)
(* outcome; settles counts the calls of resolvePromise / rejectPromise.    *)
(***************************************************************************)
Settle(r, outcome, result, by) ==
  IF r.settles = 0
  THEN [r EXCEPT !.outcome = outcome, !.result = result, !.settles = 1,
                 !.settledBy = by]
  ELSE [r EXCEPT !.settles = @ + 1]

\* A lookup that takes the oldest pending entry, whatever the id.
pendingGetOldest(pending, id) ==
  pending[CHOOSE k \in DOMAIN pending : \A j \in DOMAIN pending : k <= j]

\* this.pendingRequests.get(message.id)
pendingGet(pending, id) == pending[id]

\* A resolve / reject closure that leaves the timer armed.
clearTimeoutForgotten(tm, rid) == tm

\* clearTimeout(timer) in the resolve / reject closures of the pending entry
clearTimeout(tm, rid) == tm \ {rid}

\* handleServerRequest(method, params, state): the result of the response
handleServerRequest(method) ==
  IF method = "workspace/configuration" THEN "array"
  ELSE IF method = "workspace/workspaceFolders" THEN "array"
  ELSE IF method = "workspace/applyEdit" THEN "object"
  ELSE "null"

(***************************************************************************)
(* handleMessage(message, state): a message decoded from the stdout of     *)
(* process p.  message = [id, method, error, result].  published is the    *)
(* history of the lists process p has published for the document.          *)
(***************************************************************************)
handleMessage(p, m) ==
  IF m.id # 0 /\ m.id \in DOMAIN pendingRequests
  THEN LET rid == pendingGet(pendingRequests, m.id)
           first == requests[rid].settles = 0
       IN /\ pendingRequests' = MapDelete(pendingRequests, m.id)
          /\ timers' = clearTimeout(timers, rid)
          /\ requests' = [requests EXCEPT ![rid] =
                 Settle(@, IF m.error THEN "rejected" ELSE "resolved",
                        m.result, p)]
          /\ IF first THEN Continue(rid, ~m.error, m.result, "error")
             ELSE UNCHANGED << state, servers, serversStarting, ops >>
  ELSE IF m.id # 0 /\ m.method # ""
  THEN /\ state' = sendMessage(state, p, Msg(m.id, "", 0, 0))
       /\ UNCHANGED << servers, serversStarting, ops, pendingRequests,
                       timers, requests >>
  ELSE IF m.method = "textDocument/publishDiagnostics"
  THEN /\ state' = [state EXCEPT ![p].diagnostics = m.params,
                                 ![p].published = Append(@, m.params)]
       /\ UNCHANGED << servers, serversStarting, ops, pendingRequests,
                       timers, requests >>
  ELSE UNCHANGED << state, servers, serversStarting, ops, pendingRequests,
                    timers, requests >>

\* The events of the run that the bound MaxFaults counts.
Faults ==
  Cardinality({q \in Proc : state[q].phase # "none" /\ ~state[q].alive})
  + Cardinality({x \in DOMAIN requests : requests[x].outcome = "timeout"})
  + Len(srvLog)

(***************************************************************************)
(* Events from a backend process.                                          *)
(***************************************************************************)
\* The results a backend may give to a request.
ResultsFor(r) ==
  IF r.method = "initialize"
  THEN {[kind |-> "object", caps |-> c, forId |-> r.id] : c \in CapChoices}
  ELSE {[kind |-> "array", caps |-> EmptyCaps, forId |-> r.id]} \cup
       (IF r.method = OpMethod("documentSymbol")
        THEN {[kind |-> "null", caps |-> EmptyCaps, forId |-> r.id]} ELSE {})

\* The backend answers a request it has received, with a result or an error.
BackendResponds(p) ==
  /\ state[p].alive
  /\ \E rid \in DOMAIN requests :
       /\ requests[rid].proc = p
       /\ rid \notin answered
       /\ answered' = answered \cup {rid}
       /\ \/ \E res \in ResultsFor(requests[rid]) :
               handleMessage(p, [id |-> requests[rid].id, method |-> "",
                                 error |-> FALSE, result |-> res])
          \/ handleMessage(p, [id |-> requests[rid].id, method |-> "",
                               error |-> TRUE,
                               result |-> [kind |-> "error", caps |-> EmptyCaps,
                                           forId |-> requests[rid].id]])
  /\ UNCHANGED << outside, nprocs, nextId, srvLog >>

\* The backend sends a request of its own; its ids are the backend's choice.
BackendRequests(p) ==
  /\ state[p].alive
  /\ Faults < MaxFaults
  /\ \E id \in 1..nextId, method \in ServerMethods :
       LET m == [id |-> id, method |-> method, error |-> FALSE,
                 result |-> Undefined]
       IN /\ handleMessage(p, m)
          /\ srvLog' = Append(srvLog,
               [proc |-> p, id |-> id, method |-> method,
                result |-> handleServerRequest(method),
                at |-> Len(state[p].stdin) + 1,
                consumed |-> id \in DOMAIN pendingRequests])
  /\ UNCHANGED << outside, nprocs, nextId, answered >>

\* The backend sends a response whose id the coordinator has not sent.
BackendRespondsUnknown(p) ==
  /\ state[p].alive
  /\ nstray < MaxStray
  /\ nstray' = nstray + 1
  /\ \E id \in nextId..(MaxId + 1), err \in BOOLEAN :
       handleMessage(p, [id |-> id, method |-> "", error |-> err,
                         result |-> [kind |-> IF err THEN "error" ELSE "array",
                                     caps |-> EmptyCaps, forId |-> id]])
  /\ UNCHANGED << config, restarted, codec, router, tool, applier, pruner, resolver, nprocs,
                  nextId, answered, srvLog >>

\* child.on("exit"): drop the key from both maps.
Exit(p) ==
  /\ state[p].alive
  /\ Faults < MaxFaults
  /\ LET k == state[p].config
     IN /\ state' = [state EXCEPT ![p].alive = FALSE]
        /\ servers' = [servers EXCEPT ![k] = 0]
        /\ serversStarting' = [serversStarting EXCEPT ![k] = 0]
  /\ requests' = [rid \in DOMAIN requests |->
        IF requests[rid].proc = p /\ requests[rid].settles = 0
        THEN [requests[rid] EXCEPT !.orphaned = TRUE]
        ELSE requests[rid]]
  /\ UNCHANGED << outside, nprocs, nextId, pendingRequests, timers, answered, ops,
                  srvLog >>

(***************************************************************************)
(* Timers.                                                                 *)
(***************************************************************************)
\* A timer callback that neither deletes the pending entry nor rejects.
TimerFiresIdle(rid) ==
  /\ rid \in timers
  /\ timers' = timers \ {rid}
  /\ UNCHANGED << outside, nprocs, nextId, answered, srvLog, pendingRequests,
                  requests, state, servers, serversStarting, ops >>

\* The setTimeout callback of sendRequest: the timer of a request fires.
TimerFires(rid) ==
  /\ rid \in timers
  /\ timers' = timers \ {rid}
  /\ pendingRequests' = MapDelete(pendingRequests, requests[rid].id)
  /\ requests' = [requests EXCEPT ![rid] = Settle(@, "timeout", Undefined, 0)]
  /\ IF requests[rid].settles = 0
     THEN Continue(rid, FALSE, Undefined, "timeout")
     ELSE UNCHANGED << state, servers, serversStarting, ops >>
  /\ UNCHANGED << outside, nprocs, nextId, answered, srvLog >>

\* A timer that fires within the budget of faults of the run.
Timeout(rid) ==
  /\ Faults < MaxFaults
  /\ TimerFires(rid)

\* The settle delay of initializeServer elapses; startServer returns.
WarmupDone(p) ==
  /\ state[p].phase = "warmup"
  /\ state' = [state EXCEPT ![p].phase = "ready"]
  /\ StartResolved(p)
  /\ UNCHANGED << outside, nprocs, nextId, pendingRequests, timers, requests, answered,
                  srvLog >>

(***************************************************************************)
(* The operation calls.                                                    *)
(***************************************************************************)
\* A caller invokes findDefinition / findReferences / renameSymbol /
\* getDocumentSymbols for the file.
Call(o) ==
  /\ ops[o].pc = "idle"
  /\ \A q \in DOMAIN ops : q < o => ops[q].pc # "idle"   \* the calls are numbered in call order
  /\ \E kind \in OpKinds :
       ops' = [ops EXCEPT ![o] =
                 IF Len(config) = 0
                 THEN NoServerConfigured([IdleOp EXCEPT !.kind = kind])
                 ELSE [IdleOp EXCEPT !.kind = kind, !.pc = "acquire",
                                     !.idx = 1]]
  /\ UNCHANGED << outside, state, nprocs, servers, serversStarting, nextId,
                  pendingRequests, timers, requests, answered, srvLog >>

\* startServer up to its first suspension: spawn, then initializeServer
\* sends the initialize request.
startServer(p, k) ==
  /\ p <= MaxProc
  /\ nprocs' = p
  /\ sendRequest(p, "initialize", 0)
  /\ state' = [state EXCEPT ![p] =
        [NoState EXCEPT !.config = k, !.alive = TRUE, !.phase = "initializing",
                        !.stdin = << Msg(nextId, "initialize", 0, 0) >>]]

\* getServerForConfig after the workspace root is known.
getServerForConfig(o) ==
  /\ ops[o].pc = "acquire"
  /\ LET k == OpConfig(ops[o])
     IN IF servers[k] # 0
        THEN /\ ops' = [ops EXCEPT ![o].pc = "gotState", ![o].proc = servers[k]]
             /\ UNCHANGED << state, nprocs, serversStarting, nextId,
                             pendingRequests, timers, requests >>
        ELSE IF serversStarting[k] # 0
        THEN /\ ops' = [ops EXCEPT ![o].pc = "awaitStart",
                                   ![o].proc = serversStarting[k]]
             /\ UNCHANGED << state, nprocs, serversStarting, nextId,
                             pendingRequests, timers, requests >>
        ELSE /\ startServer(nprocs + 1, k)
             /\ serversStarting' = [serversStarting EXCEPT ![k] = nprocs + 1]
             /\ ops' = [ops EXCEPT ![o].pc = "awaitStart",
                                   ![o].proc = nprocs + 1]
  /\ UNCHANGED << outside, servers, answered, srvLog >>

\* The operation writes its request to the instance it holds.
SendOpRequest(o) ==
  LET p == ops[o].proc
  IN /\ sendRequest(p, OpMethod(ops[o].kind), o)
     /\ state' = sendMessage(state, p, Msg(nextId, OpMethod(ops[o].kind), o, 0))
     /\ ops' = [ops EXCEPT ![o].pc = "awaitResp",
                           ![o].req = Len(requests) + 1]

\* With the instance in hand: in the loop the capability check, then
\* ensureFileOpen up to its readFile; in getServerStatesForFile
\* `states.push(state)`.
UseState(o) ==
  /\ ops[o].pc = "gotState"
  /\ LET p == ops[o].proc
     IN IF ops[o].kind \in {"diagnostics", "sync"}
        THEN /\ ops' = [ops EXCEPT ![o] = NextCandidate(@, "started")]
             /\ UNCHANGED << state, nextId, pendingRequests, timers, requests >>
        ELSE IF ~ops[o].fallback
           /\ ~serverAdvertisedCapability(state[p].capabilities,
                                          OpCapability(ops[o].kind))
        THEN /\ ops' = [ops EXCEPT ![o] = OnDenied(@)]
             /\ UNCHANGED << state, nextId, pendingRequests, timers, requests >>
        ELSE IF state[p].openFiles
        THEN SendOpRequest(o)
        ELSE /\ ops' = [ops EXCEPT ![o].pc = "reading"]
             /\ UNCHANGED << state, nextId, pendingRequests, timers, requests >>
  /\ UNCHANGED << outside, nprocs, servers, serversStarting, answered, srvLog >>

\* An ensureFileOpen that marks the document open and sends no didOpen.
ensureFileOpenSilent(o) ==
  /\ ops[o].pc = "reading"
  /\ state' = [state EXCEPT ![ops[o].proc].openFiles = TRUE,
                            ![ops[o].proc].fileVersions = 1,
                            ![ops[o].proc].text = readFile]
  /\ ops' = [ops EXCEPT ![o].pc = "grace"]
  /\ UNCHANGED << outside, nprocs, servers, serversStarting, nextId, pendingRequests,
                  timers, requests, answered, srvLog >>

\* ensureFileOpen after readFile: mark the document open and send didOpen.
\* (The document of the model exists and is readable: readFile succeeds.)
ensureFileOpen(o) ==
  /\ ops[o].pc = "reading"
  /\ LET p == ops[o].proc
         st == [state EXCEPT ![p].openFiles = TRUE, ![p].fileVersions = 1,
                             ![p].text = readFile]
     IN state' = sendNotification(st, p, "textDocument/didOpen", 1)
  /\ ops' = [ops EXCEPT ![o].pc = "grace"]
  /\ UNCHANGED << outside, nprocs, servers, serversStarting, nextId, pendingRequests,
                  timers, requests, answered, srvLog >>

\* The 200 ms grace delay after a first open elapses.
GraceDone(o) ==
  /\ ops[o].pc = "grace"
  /\ SendOpRequest(o)
  /\ UNCHANGED << outside, nprocs, servers, serversStarting, answered, srvLog >>

Next ==
  \/ \E o \in DOMAIN ops : Call(o)
  \/ \E o \in DOMAIN ops : getServerForConfig(o)
  \/ \E o \in DOMAIN ops : UseState(o)
  \/ \E o \in DOMAIN ops : ensureFileOpen(o)
  \/ \E o \in DOMAIN ops : GraceDone(o)
  \/ \E p \in Proc : BackendResponds(p)
  \/ \E p \in Proc : BackendRequests(p)
  \/ \E p \in Proc : BackendRespondsUnknown(p)
  \/ \E p \in Proc : Exit(p)
  \/ \E p \in Proc : WarmupDone(p)
  \/ \E rid \in DOMAIN requests : Timeout(rid)

Spec == Init /\ [][Next]_vars

(***************************************************************************)
(* Concurrent calls: NumConcurrent calls in flight at once against one     *)
(* configured backend; the backend sends no requests of its own.           *)
(***************************************************************************)
InitConcurrent ==
  /\ config = SubSeq(configs, 1, 1)
  /\ state = [p \in Proc |-> NoState]
  /\ nprocs = 0
  /\ servers = [k \in Cfg |-> 0]
  /\ serversStarting = [k \in Cfg |-> 0]
  /\ nextId = 1
  /\ pendingRequests = [x \in {} |-> 0]
  /\ timers = {}
  /\ requests = << >>
  /\ answered = {}
  /\ ops = [o \in 1..NumConcurrent |-> IdleOp]
  /\ srvLog = << >>
  /\ nstray = 0
  /\ restarted = << >>
  /\ codec = NoStream
  /\ pruner = NoPrune
  /\ resolver = NoResolver
  /\ router = NoRoute
  /\ tool = NoTool
  /\ applier = NoEdit

NextConcurrent ==
  \/ \E o \in DOMAIN ops : Call(o)
  \/ \E o \in DOMAIN ops : getServerForConfig(o)
  \/ \E o \in DOMAIN ops : UseState(o)
  \/ \E o \in DOMAIN ops : ensureFileOpen(o)
  \/ \E o \in DOMAIN ops : GraceDone(o)
  \/ \E p \in Proc : BackendResponds(p)
  \/ \E p \in Proc : Exit(p)
  \/ \E p \in Proc : WarmupDone(p)
  \/ \E rid \in DOMAIN requests : Timeout(rid)

SpecConcurrent == InitConcurrent /\ [][NextConcurrent]_vars

TypeOK ==
  /\ nprocs \in 0..MaxProc
  /\ nextId \in 1..(MaxId + 1)
  /\ DOMAIN pendingRequests \subseteq 1..MaxId
  /\ timers \subseteq DOMAIN requests

(***************************************************************************)
(* The claims.                                                             *)
(***************************************************************************)
Stdin(p) == state[p].stdin

\* The requests operation call o has written to process p.
OpRequestsTo(o, p) ==
  {i \in DOMAIN Stdin(p) : Stdin(p)[i].op = o /\ Stdin(p)[i].id # 0}

\* C1: acquire calls in flight at the same time for one key, while no
\* instance is registered for it, share one start: two calls that await the
\* start of a live process for the same key await the same process.
C1_StartDeduplication ==
  \A o1, o2 \in DOMAIN ops :
    (/\ ops[o1].pc = "awaitStart"
     /\ ops[o2].pc = "awaitStart"
     /\ state[ops[o1].proc].config = state[ops[o2].proc].config
     /\ servers[state[ops[o1].proc].config] = 0
     /\ state[ops[o1].proc].alive
     /\ state[ops[o2].proc].alive)
    => ops[o1].proc = ops[o2].proc

\* C2: the registry lookup of an acquire never returns an instance whose
\* process has exited.
C2_NoExitedInstanceReturned ==
  [][\A o \in DOMAIN ops :
       (ops[o].pc = "acquire" /\ ops'[o].pc = "gotState")
         => state[ops'[o].proc].alive]_vars

\* C3: a request is settled only by its timeout or by a message from the
\* process it was sent to.
C3_NoCrossInstanceCorrelation ==
  \A rid \in DOMAIN requests :
    requests[rid].settledBy \in {0, requests[rid].proc}

\* C4: a request settles at most once; while it is unsettled its pending
\* entry and its timer are in place, and once it has settled both are gone,
\* so that no later response or timer can settle it again.
C4_SettlesExactlyOnce ==
  \A rid \in DOMAIN requests :
    LET r == requests[rid]
        registered == r.id \in DOMAIN pendingRequests
                        /\ pendingRequests[r.id] = rid
    IN /\ r.settles <= 1
       /\ (r.settles = 0) <=> (r.outcome = "pending")
       /\ r.settles = 0 => (registered /\ rid \in timers)
       /\ r.settles = 1 => (~registered /\ rid \notin timers)

\* A request timed out and its backend answered it afterwards.
C4_Witness ==
  \E rid \in DOMAIN requests :
    requests[rid].outcome = "timeout" /\ rid \in answered

\* C5: every server-initiated request (a message with an id and a method) is
\* answered with a response of the same id and is not taken for a response.
C5_ServerRequestsAnswered ==
  \A i \in DOMAIN srvLog :
    LET r == srvLog[i]
    IN /\ ~r.consumed
       /\ r.at <= Len(Stdin(r.proc))
       /\ Stdin(r.proc)[r.at] = Msg(r.id, "", 0, 0)

C7_NoRequestToDenyingBackend ==
  \A p \in Proc :
    \A i \in DOMAIN Stdin(p) :
      LET m == Stdin(p)[i]
      IN m.op # 0 =>
           serverAdvertisedCapability(state[p].capabilities,
                                      OpCapability(ops[m.op].kind))

\* The ways a candidate fails.
CandidateFailures == {"startFailed", "denied", "error", "timeout"}

\* C8: an operation in which every routed candidate failed ends with one
\* aggregate error that lists a reason for each candidate.
C8_AggregateError ==
  \A o \in DOMAIN ops :
    LET op == ops[o]
    IN (/\ op.pc = "done"
        /\ Len(op.tried) = Len(config)
        /\ \A j \in DOMAIN op.tried : op.tried[j].outcome \in CandidateFailures)
       => /\ op.status = "error"
          /\ op.error = "aggregate"
          /\ Len(op.reasons) = Len(config)

\* C9: when the process of a backend exits while a request of an operation
\* call is in flight to it, the call sends no request to another process of
\* the same backend.
C9_NoRetryAgainstRestartedProcess ==
  \A r1, r2 \in DOMAIN requests :
    (/\ r1 < r2
     /\ requests[r1].op # 0
     /\ requests[r1].op = requests[r2].op
     /\ requests[r1].orphaned)
    => ~(/\ requests[r2].proc # requests[r1].proc
         /\ state[requests[r2].proc].config = state[requests[r1].proc].config)

\* C10: a request settled by a response gets the result or error made for
\* its own id, whatever the order of the responses; the ids of the requests
\* increase in call order, so none is used twice.
C10_MatchedById ==
  /\ \A rid \in DOMAIN requests :
       LET r == requests[rid]
       IN (r.outcome \in {"resolved", "rejected"} /\ r.result.kind # "undefined")
            => r.result.forId = r.id
  /\ \A r1, r2 \in DOMAIN requests :
       r1 < r2 => requests[r1].id < requests[r2].id

\* Two requests of two calls are pending on one instance and the backend
\* answers the later one first.
C10_Witness ==
  \E r1, r2 \in DOMAIN requests :
    /\ r1 < r2
    /\ requests[r1].op # 0
    /\ requests[r2].op # 0
    /\ requests[r1].proc = requests[r2].proc
    /\ requests[r1].outcome = "pending"
    /\ requests[r2].outcome = "resolved"

\* C11: the timer of a request fails it with a timeout and removes its
\* pending entry; a response for a request that has timed out, and a response
\* with an id that was never sent, settle no request and change nothing in
\* the coordinator or in any instance.
C11_TimeoutAndUnknownIdsDropped ==
  [][
     /\ \A rid \in DOMAIN requests :
          (rid \in timers /\ rid \notin timers' /\ requests'[rid].settledBy = 0)
            => /\ requests'[rid].outcome = "timeout"
               /\ requests[rid].id \notin DOMAIN pendingRequests'
     /\ (\E rid \in answered' \ answered : requests[rid].outcome = "timeout")
            => UNCHANGED << state, servers, serversStarting, pendingRequests,
                            timers, requests, ops >>
     /\ (nstray' # nstray)
            => UNCHANGED << state, servers, serversStarting, pendingRequests,
                            timers, requests, ops >>
  ]_vars

\* A request timed out, its backend answered it afterwards, and a response
\* with an unknown id was received while another request was pending.
C11_Witness ==
  /\ nstray > 0
  /\ \E rid \in DOMAIN requests :
       requests[rid].outcome = "timeout" /\ rid \in answered
  /\ \E rid \in DOMAIN requests : requests[rid].outcome = "pending"

(***************************************************************************)
(* The frame codec: sendMessage frames a message, drainServerBuffer        *)
(* decodes the frames of a byte stream.  A byte is a token: the ASCII      *)
(* characters stand for themselves, "c3" and "a9" are the two bytes of the *)
(* UTF-8 encoding of the character "e-acute"; "Content-" and "Length"      *)
(* each stand for the bytes of that part of the field name.                *)
(***************************************************************************)
MaxFrames == 3      \* frames in one stream

separator == << "\r", "\n", "\r", "\n" >>

\* The messages of the codec model.
Messages == {"empty", "numbered", "accented", "long"}

\* JSON.stringify(message): the characters of the body
JSONstringify(m) ==
  CASE m = "empty" -> << "{", "}" >>
    [] m = "numbered" -> << "{", "1", "}" >>
    [] m = "accented" -> << "{", "e-acute", "}" >>
    [] m = "long" -> << "{", "a", "a", "a", "a", "a", "a", "a", "a", "}" >>

\* The UTF-8 encoding of a string.
RECURSIVE Utf8Bytes(_)
Utf8Bytes(chars) ==
  IF chars = << >> THEN << >>
  ELSE (IF Head(chars) = "e-acute" THEN << "c3", "a9" >> ELSE << Head(chars) >>)
       \o Utf8Bytes(Tail(chars))

\* body.toString("utf8")
RECURSIVE Utf8Decode(_)
Utf8Decode(bytes) ==
  IF bytes = << >> THEN << >>
  ELSE IF Len(bytes) >= 2 /\ bytes[1] = "c3" /\ bytes[2] = "a9"
  THEN << "e-acute" >> \o Utf8Decode(Tail(Tail(bytes)))
  ELSE IF Head(bytes) \in {"c3", "a9"}
  THEN << "U+FFFD" >> \o Utf8Decode(Tail(bytes))
  ELSE << Head(bytes) >> \o Utf8Decode(Tail(bytes))

\* A length that counts characters, not bytes.
charLength(chars) == Len(chars)

\* Buffer.byteLength(content, "utf8")
byteLength(chars) == Len(Utf8Bytes(chars))

DigitChars == << "0", "1", "2", "3", "4", "5", "6", "7", "8", "9" >>

\* The decimal digits of a number, as the template literal writes them.
RECURSIVE Decimal(_)
Decimal(n) ==
  IF n < 10 THEN << DigitChars[n + 1] >>
  ELSE Decimal(n \div 10) \o << DigitChars[(n % 10) + 1] >>

\* The bytes sendMessage writes for a message.
Frame(m) ==
  << "Content-", "Length", ":", " " >> \o Decimal(byteLength(JSONstringify(m)))
    \o separator \o Utf8Bytes(JSONstringify(m))

\* JSON.parse(text): the message with that text, or a syntax error
JSONparse(chars) ==
  IF \E m \in Messages : JSONstringify(m) = chars
  THEN CHOOSE m \in Messages : JSONstringify(m) = chars
  ELSE "SyntaxError"

\* buffer.indexOf(separator): 0-based, -1 when absent
indexOf(buf, sep) ==
  LET hits == {i \in 0..(Len(buf) - Len(sep)) :
                 SubSeq(buf, i + 1, i + Len(sep)) = sep}
  IN IF hits = {} THEN -1
     ELSE CHOOSE i \in hits : \A j \in hits : i <= j

\* buffer.slice(start): the bytes from 0-based offset start on
slice(buf, start) == SubSeq(buf, start + 1, Len(buf))

\* toString("ascii"): the high bit of a byte is dropped
toAscii(bytes) ==
  [i \in DOMAIN bytes |->
     CASE bytes[i] = "c3" -> "C"
       [] bytes[i] = "a9" -> ")"
       [] OTHER -> bytes[i]]

Whitespace == {" ", "\t", "\r", "\n"}

DigitSet == {DigitChars[i] : i \in DOMAIN DigitChars}

\* The number of leading elements of a text that are in a set.
RECURSIVE Span(_, _)
Span(text, set) ==
  IF text # << >> /\ Head(text) \in set THEN 1 + Span(Tail(text), set) ELSE 0

\* /Content-Length:\s*(\d+)/i.exec(headerText): the digits of the leftmost
\* match (group 1), << >> when there is no match.
ContentLengthMatch(text) ==
  LET name == << "Content-", "Length", ":" >>
      after(i) == SubSeq(text, i + Len(name), Len(text))
      digitsAt(i) ==
        LET rest == after(i)
            ws == Span(rest, Whitespace)
            tail == SubSeq(rest, ws + 1, Len(rest))
        IN SubSeq(tail, 1, Span(tail, DigitSet))
      hits == {i \in 1..(Len(text) - Len(name) + 1) :
                 /\ SubSeq(text, i, i + Len(name) - 1) = name
                 /\ digitsAt(i) # << >>}
  IN IF hits = {} THEN << >>
     ELSE digitsAt(CHOOSE i \in hits : \A j \in hits : i <= j)

\* Number.parseInt(digits, 10)
RECURSIVE parseInt(_)
parseInt(digits) ==
  IF digits = << >> THEN 0
  ELSE 10 * parseInt(SubSeq(digits, 1, Len(digits) - 1))
       + (CHOOSE d \in 0..9 : DigitChars[d + 1] = digits[Len(digits)])

RECURSIVE drainServerBuffer(_, _)

\* An invalid header that ends the draining with the buffer as it is.
onInvalidHeaderStall(buf, headerEnd, handled) ==
  [buffer |-> buf, handled |-> handled]

\* `state.buffer = state.buffer.slice(headerEnd + separator.length); continue;`
onInvalidHeader(buf, headerEnd, handled) ==
  drainServerBuffer(slice(buf, headerEnd + Len(separator)), handled)

\* drainServerBuffer(state): the buffer that is left and the messages handed
\* to handleMessage, after those handed over before.
drainServerBuffer(buf, handled) ==
  LET headerEnd == indexOf(buf, separator)
      headerText == toAscii(SubSeq(buf, 1, headerEnd))
      match == ContentLengthMatch(headerText)
      length == parseInt(match)
      bodyStart == headerEnd + Len(separator)
      body == SubSeq(buf, bodyStart + 1, bodyStart + length)
      message == JSONparse(Utf8Decode(body))
  IN IF headerEnd = -1 THEN [buffer |-> buf, handled |-> handled]
     ELSE IF match = << >> THEN onInvalidHeader(buf, headerEnd, handled)
     ELSE IF Len(buf) < bodyStart + length
     THEN [buffer |-> buf, handled |-> handled]
     ELSE drainServerBuffer(slice(buf, bodyStart + length),
                            IF message = "SyntaxError" THEN handled
                            ELSE Append(handled, message))

\* Header blocks with no numeric Content-Length, as a backend may write
\* them: one without the field and without a body, one with a value that
\* is not a number, followed by a body.
CorruptFrames == {"noLength", "nonNumeric"}

CorruptBytes(c) ==
  IF c = "noLength"
  THEN << "Content-", "Type", ":", " ", "x" >> \o separator
  ELSE << "Content-", "Length", ":", " ", "x" >> \o separator \o << "{", "}" >>

\* The bytes of one item of a stream.
ItemBytes(x) == IF x \in Messages THEN Frame(x) ELSE CorruptBytes(x)

RECURSIVE StreamBytes(_)
StreamBytes(items) ==
  IF items = << >> THEN << >>
  ELSE ItemBytes(Head(items)) \o StreamBytes(Tail(items))

Streams ==
  UNION {[1..n -> Messages \cup CorruptFrames] : n \in 1..MaxFrames}

\* The coordinator with no process spawned and no call made.
NoClient ==
  /\ config = SubSeq(configs, 1, 1)
  /\ state = [p \in Proc |-> NoState]
  /\ nprocs = 0
  /\ servers = [k \in Cfg |-> 0]
  /\ serversStarting = [k \in Cfg |-> 0]
  /\ nextId = 1
  /\ pendingRequests = [x \in {} |-> 0]
  /\ timers = {}
  /\ requests = << >>
  /\ answered = {}
  /\ ops = [o \in 1..NumOps |-> IdleOp]
  /\ srvLog = << >>
  /\ nstray = 0
  /\ restarted = << >>

client ==
  << config, state, nprocs, servers, serversStarting, nextId, pendingRequests,
     timers, requests, answered, ops, srvLog, nstray, restarted >>

InitCodec ==
  /\ NoClient
  /\ router = NoRoute
  /\ tool = NoTool
  /\ applier = NoEdit
  /\ pruner = NoPrune
  /\ resolver = NoResolver
  /\ \E items \in Streams :
       codec = [NoStream EXCEPT !.stream = StreamBytes(items), !.sent = items]

\* child.stdout.on("data"): the next chunk of the stream, of any size, is
\* appended to the buffer and the buffer is drained.
StdoutData ==
  /\ \E n \in 1..(Len(codec.stream) - codec.pos) :
       LET chunk == SubSeq(codec.stream, codec.pos + 1, codec.pos + n)
           r == drainServerBuffer(codec.buffer \o chunk, codec.handled)
       IN codec' = [codec EXCEPT !.pos = @ + n, !.buffer = r.buffer,
                                 !.handled = r.handled]
  /\ UNCHANGED << client, pruner, resolver, router, tool, applier >>

NextCodec == StdoutData

SpecCodec == InitCodec /\ [][NextCodec]_vars

\* The items of a stream whose bytes have all arrived after pos bytes.
RECURSIVE Arrived(_, _)
Arrived(items, pos) ==
  IF items = << >> \/ Len(ItemBytes(Head(items))) > pos THEN << >>
  ELSE << Head(items) >> \o Arrived(Tail(items), pos - Len(ItemBytes(Head(items))))

IsMessage(x) == x \in Messages

WellFormed(items) == \A i \in DOMAIN items : IsMessage(items[i])

\* C12: for a stream of frames written by sendMessage and delivered in
\* chunks of any sizes, the messages handed to the handler are, at every
\* moment, exactly the messages whose frames have arrived in full, in stream
\* order and each once; the buffer holds the bytes of the unfinished frame.
C12_FramesRoundTrip ==
  WellFormed(codec.sent) =>
    LET arrived == Arrived(codec.sent, codec.pos)
    IN /\ codec.handled = arrived
       /\ codec.buffer = SubSeq(codec.stream, Len(StreamBytes(arrived)) + 1,
                                codec.pos)

\* A frame with a two-byte character was decoded and the next frame, with a
\* two-digit length, has arrived in part.
C12_Witness ==
  /\ WellFormed(codec.sent)
  /\ Len(codec.sent) = 3
  /\ codec.sent[2] = "accented"
  /\ codec.sent[3] = "long"
  /\ Len(codec.handled) = 2
  /\ Len(codec.buffer) > Len(Frame("long")) - Len(JSONstringify("long"))

MaxServers == 3     \* configured backends in one routing

InsideBase == 10000

RootDirs ==
  {<< >>, << "a" >>, << "a", "b" >>, << "x" >>, << "a", "..cache" >>}

FilePaths ==
  {<< "a", "b", "c.ts" >>, << "a", "..cache", "c.ts" >>, << "a", "c.ts" >>,
   << "x", "m.py" >>}

ExtensionSets == {{"ts"}, {"py"}}

\* The configurations of a routing: servers[i] is the i-th entry of
\* this.config.servers and carries its position as its name.
ServerLists ==
  UNION {
    {[i \in 1..n |-> [name |-> i, extensions |-> e[i], rootDir |-> r[i]]] :
       e \in [1..n -> ExtensionSets], r \in [1..n -> RootDirs]} :
    n \in 1..MaxServers}

\* extname(filePath) without the dot
extname(filePath) ==
  IF filePath[Len(filePath)] = "m.py" THEN "py" ELSE "ts"

getMatchingServerConfigsForFile(filePath, list) ==
  LET claims(server) == extname(filePath) \in server.extensions
  IN SelectSeq(list, claims)

\* The length of the path string: a separator and a name per component.
RECURSIVE pathLength(_)
pathLength(path) ==
  IF path = << >> THEN 0
  ELSE 1 + Len(Head(path)) + pathLength(Tail(path))

\* relative(from, to): ".." for every component of from below the common
\* prefix, then the rest of to.
relative(from, to) ==
  LET common == {k \in 0..Len(from) :
                   k <= Len(to) /\ SubSeq(from, 1, k) = SubSeq(to, 1, k)}
      cp == CHOOSE k \in common : \A j \in common : j <= k
  IN [i \in 1..(Len(from) - cp) |-> ".."] \o SubSeq(to, cp + 1, Len(to))

\* rel.startsWith(".."): the path string begins with two dots
startsWithDotDot(rel) ==
  rel # << >> /\ Head(rel) \in {"..", "..cache"}

\* The score of one candidate.
score(server, filePath) ==
  IF server.rootDir = << >> THEN 0
  ELSE LET rel == relative(server.rootDir, filePath)
           isInside == rel = << >> \/ ~startsWithDotDot(rel)
       IN IF isInside THEN InsideBase + pathLength(server.rootDir) ELSE -1

\* scored.sort((a, b) => b.score - a.score || a.index - b.index)
RECURSIVE sortScored(_)
sortScored(scored) ==
  IF scored = {} THEN << >>
  ELSE LET first == CHOOSE a \in scored : \A b \in scored \ {a} :
                      \/ a.score > b.score
                      \/ a.score = b.score /\ a.index < b.index
       IN << first >> \o sortScored(scored \ {first})

orderServerConfigsBySpecificity(filePath, list) ==
  IF Len(list) <= 1 THEN list
  ELSE LET scored == {[server |-> list[i], index |-> i,
                       score |-> score(list[i], filePath)] : i \in DOMAIN list}
           sorted == sortScored(scored)
       IN [i \in DOMAIN sorted |-> sorted[i].server]

getOrderedServerConfigsForFile(filePath, list) ==
  orderServerConfigsBySpecificity(filePath,
                                  getMatchingServerConfigsForFile(filePath, list))

InitRouter ==
  /\ NoClient
  /\ codec = NoStream
  /\ pruner = NoPrune
  /\ resolver = NoResolver
  /\ tool = NoTool
  /\ applier = NoEdit
  /\ \E list \in ServerLists, filePath \in FilePaths :
       router = [NoRoute EXCEPT !.servers = list, !.filePath = filePath]

\* getOrderedServerConfigsForFile(filePath) is called.
Route ==
  /\ ~router.done
  /\ router' = [router EXCEPT
       !.ordered = getOrderedServerConfigsForFile(router.filePath, router.servers),
       !.done = TRUE]
  /\ UNCHANGED << client, pruner, resolver, codec, tool, applier >>

NextRouter == Route

SpecRouter == InitRouter /\ [][NextRouter]_vars

\* The root is the directory of the file or one above it.
IsAncestorOrEqual(root, filePath) ==
  Len(root) <= Len(filePath) /\ SubSeq(filePath, 1, Len(root)) = root

\* C14: in the routed list every backend whose explicit root is an ancestor
\* of (or equal to) the file's path comes before every backend with no
\* explicit root; of two backends whose roots contain the file the one with
\* the longer root path comes first; candidates with equal score keep their
\* configuration order.
C14_SpecificRootFirst ==
  router.done =>
    \A i, j \in DOMAIN router.ordered :
      LET a == router.ordered[i]
          b == router.ordered[j]
          inA == a.rootDir # << >> /\ IsAncestorOrEqual(a.rootDir, router.filePath)
          inB == b.rootDir # << >> /\ IsAncestorOrEqual(b.rootDir, router.filePath)
      IN /\ (inA /\ b.rootDir = << >>) => i < j
         /\ (inA /\ inB /\ pathLength(a.rootDir) > pathLength(b.rootDir)) => i < j
         /\ (/\ score(a, router.filePath) = score(b, router.filePath)
             /\ a.name < b.name) => i < j

\* C15: in the routed list no backend without an explicit root comes before
\* a backend that has one.
C15_UnscopedLast ==
  router.done =>
    \A i, j \in DOMAIN router.ordered :
      (router.ordered[i].rootDir = << >> /\ router.ordered[j].rootDir # << >>)
        => j < i

(***************************************************************************)
(* The rename_symbol tool (handleRenameSymbol): resolve the symbol name    *)
(* against the document symbols of the file, refuse an ambiguous name,     *)
(* else ask for the rename.  The calls of the coordinator it makes run as  *)
(* the operation call 1 of the model, one after the other.                 *)
(***************************************************************************)
\* A document symbol: its name, kind, the line where its name starts, its
\* children; flat is TRUE for a SymbolInformation (it has a location).
Sym(name, kind, line, children, flat) ==
  [name |-> name, kind |-> kind, line |-> line, children |-> children,
   flat |-> flat]

\* What the backend lists for the file: a class and a function named Foo; a
\* class Foo with its constructor Foo; a class Foo and a function Bar, as
\* SymbolInformation.
SymbolFiles ==
  { << Sym("Foo", 5, 1, << >>, FALSE), Sym("Foo", 12, 5, << >>, FALSE) >>,
    << Sym("Foo", 5, 1, << Sym("Foo", 9, 2, << >>, FALSE) >>, FALSE) >>,
    << Sym("Foo", 5, 1, << >>, TRUE), Sym("Bar", 12, 5, << >>, TRUE) >> }

SymbolKindArgs == {"", "class", "function"}

\* symbolKindFromString(kind); 0 stands for undefined
symbolKindFromString(kind) ==
  CASE kind = "class" -> 5
    [] kind = "constructor" -> 9
    [] kind = "function" -> 12
    [] OTHER -> 0

\* symbolKindToString(kind)
symbolKindToString(kind) ==
  CASE kind = 5 -> "class"
    [] kind = 9 -> "constructor"
    [] kind = 12 -> "function"
    [] OTHER -> "unknown"

\* pushMatch of findSymbolsByName
pushMatch(sym, symbolName, desiredKind) ==
  IF sym.name # symbolName THEN << >>
  ELSE IF desiredKind # 0 /\ sym.kind # desiredKind THEN << >>
  ELSE << [name |-> sym.name, kind |-> sym.kind, position |-> sym.line] >>

\* The loop of findSymbolsByName over docs, with walkDocumentSymbol for the
\* symbols that are not flat.
RECURSIVE walkSymbols(_, _, _)
walkSymbols(docs, symbolName, desiredKind) ==
  IF docs = << >> THEN << >>
  ELSE LET sym == Head(docs)
       IN pushMatch(sym, symbolName, desiredKind)
          \o (IF sym.flat THEN << >>
              ELSE walkSymbols(sym.children, symbolName, desiredKind))
          \o walkSymbols(Tail(docs), symbolName, desiredKind)

\* findSymbolsByName after getDocumentSymbols has returned docs
findSymbolsByName(docs, symbolName, symbolKind) ==
  walkSymbols(docs, symbolName, symbolKindFromString(symbolKind))

\* C16: a rename whose symbol name matches more than one location answers
\* with the ambiguity error that lists every matching location, and no
\* backend has been contacted: no process spawned, nothing written.
C16_AmbiguousRenameContactsNoBackend ==
  tool.response = "ambiguous" =>
    /\ Len(tool.candidates) > 1
    /\ Len(tool.candidates)
         = Len(findSymbolsByName(tool.symbols, tool.symbol_name, tool.symbol_kind))
    /\ nprocs = 0
    /\ \A p \in Proc : Stdin(p) = << >>

(***************************************************************************)
(* getDiagnostics: acquire every routed backend, open the document on      *)
(* each, wait if one was just opened, merge the stored lists.              *)
(***************************************************************************)
MaxPublish == 2     \* publishDiagnostics notifications of one process

\* The diagnostic lists a backend publishes for the document; source
\* "undefined" stands for an entry without a source.
DiagnosticLists ==
  { << >>,
    << [message |-> "unused", source |-> "undefined"] >>,
    << [message |-> "semi", source |-> "eslint"],
       [message |-> "type", source |-> "undefined"] >> }

\* The states collected by getServerStatesForFile, in routed order.
States(op) ==
  LET started(t) == t.outcome = "started"
  IN SelectSeq(op.tried, started)

\* `{ ...d, source: d.source ? d.source : serverLabel }`
mergeDiagnostic(d, serverLabel) ==
  [d EXCEPT !.source = IF d.source \notin {"undefined", ""} THEN d.source
                       ELSE serverLabel]

\* The merge loop of getDiagnostics over states, read from st.
RECURSIVE mergeStates(_, _)
mergeStates(states, st) ==
  IF states = << >> THEN << >>
  ELSE LET diags == st[Head(states).proc].diagnostics
           serverLabel == config[Head(states).cfg].name
       IN [i \in DOMAIN diags |-> mergeDiagnostic(diags[i], serverLabel)]
          \o mergeStates(Tail(states), st)

\* A caller invokes getDiagnostics for the file.
getDiagnostics(o) ==
  /\ ops[o].pc = "idle"
  /\ ops' = [ops EXCEPT ![o] =
               IF Len(config) = 0
               THEN NoServerConfigured([IdleOp EXCEPT !.kind = "diagnostics"])
               ELSE [IdleOp EXCEPT !.kind = "diagnostics", !.pc = "acquire",
                                   !.idx = 1]]
  /\ UNCHANGED << outside, state, nprocs, servers, serversStarting, nextId,
                  pendingRequests, timers, requests, answered, srvLog >>

\* The end of the open loop: the 300 ms delay if a document was opened, else
\* the merge.
AfterOpen(op, opened, st) ==
  IF op.idx < Len(States(op))
  THEN [op EXCEPT !.idx = @ + 1, !.opened = opened]
  ELSE IF opened THEN [op EXCEPT !.pc = "settle", !.opened = opened]
  ELSE [Return(op, "ok", "none", << >>) EXCEPT
          !.merged = mergeStates(States(op), st)]

\* One turn of `for (const state of states) await this.ensureFileOpen(...)`.
getDiagnosticsOpen(o) ==
  /\ ops[o].pc = "openEach"
  /\ LET op == ops[o]
         p == States(op)[op.idx].proc
     IN IF state[p].openFiles
        THEN /\ ops' = [ops EXCEPT ![o] = AfterOpen(op, op.opened, state)]
             /\ UNCHANGED state
        ELSE LET st == sendNotification(
                         [state EXCEPT ![p].openFiles = TRUE,
                                       ![p].fileVersions = 1,
                                       ![p].text = readFile],
                         p, "textDocument/didOpen", 1)
             IN /\ state' = st
                /\ ops' = [ops EXCEPT ![o] = AfterOpen(op, TRUE, st)]
  /\ UNCHANGED << outside, nprocs, servers, serversStarting, nextId,
                  pendingRequests, timers, requests, answered, srvLog >>

\* The 300 ms delay of getDiagnostics elapses: merge and return.
getDiagnosticsMerge(o) ==
  /\ ops[o].pc = "settle"
  /\ ops' = [ops EXCEPT ![o] =
       [Return(@, "ok", "none", << >>) EXCEPT
          !.merged = mergeStates(States(ops[o]), state)]]
  /\ UNCHANGED << outside, state, nprocs, servers, serversStarting, nextId,
                  pendingRequests, timers, requests, answered, srvLog >>

\* An initialized backend publishes a diagnostic list for the document.
BackendPublishes(p) ==
  /\ state[p].alive
  /\ state[p].initialized
  /\ Len(state[p].published) < MaxPublish
  /\ \E diags \in DiagnosticLists :
       handleMessage(p, [id |-> 0, method |-> "textDocument/publishDiagnostics",
                         error |-> FALSE, result |-> Undefined,
                         params |-> diags])
  /\ UNCHANGED << outside, nprocs, nextId, answered, srvLog >>

NextDiagnostics ==
  \/ \E o \in DOMAIN ops : getDiagnostics(o)
  \/ \E o \in DOMAIN ops : getServerForConfig(o)
  \/ \E o \in DOMAIN ops : UseState(o)
  \/ \E o \in DOMAIN ops : getDiagnosticsOpen(o)
  \/ \E o \in DOMAIN ops : getDiagnosticsMerge(o)
  \/ \E p \in Proc : BackendResponds(p)
  \/ \E p \in Proc : BackendPublishes(p)
  \/ \E p \in Proc : WarmupDone(p)

\* As Init, with NumConcurrent callers of getDiagnostics.
InitDiagnostics ==
  /\ config \in Configurations
  /\ state = [p \in Proc |-> NoState]
  /\ nprocs = 0
  /\ servers = [k \in Cfg |-> 0]
  /\ serversStarting = [k \in Cfg |-> 0]
  /\ nextId = 1
  /\ pendingRequests = [x \in {} |-> 0]
  /\ timers = {}
  /\ requests = << >>
  /\ answered = {}
  /\ ops = [o \in 1..NumConcurrent |-> IdleOp]
  /\ srvLog = << >>
  /\ nstray = 0
  /\ restarted = << >>
  /\ codec = NoStream
  /\ pruner = NoPrune
  /\ resolver = NoResolver
  /\ router = NoRoute
  /\ tool = NoTool
  /\ applier = NoEdit

SpecDiagnostics == InitDiagnostics /\ [][NextDiagnostics]_vars

\* The instances of backend k that have published a list for the document.
Publishers(k) ==
  {p \in Proc : state[p].config = k /\ state[p].published # << >>}

\* For every routed backend an instance that has published, 0 when the
\* backend has none.
LastPublishers ==
  {f \in [DOMAIN config -> Proc \cup {0}] :
     \A k \in DOMAIN config :
       IF Publishers(k) = {} THEN f[k] = 0 ELSE f[k] \in Publishers(k)}

\* The list the instance published last, << >> for no instance.
LastPublished(p) ==
  IF p = 0 THEN << >> ELSE state[p].published[Len(state[p].published)]

\* The lists published last by the routed backends 1..n, one after the
\* other, every entry without a source labelled with the name of its backend.
RECURSIVE ExpectedDiagnostics(_, _)
ExpectedDiagnostics(f, n) ==
  IF n = 0 THEN << >>
  ELSE ExpectedDiagnostics(f, n - 1) \o
       [i \in DOMAIN LastPublished(f[n]) |->
          IF LastPublished(f[n])[i].source = "undefined"
          THEN [LastPublished(f[n])[i] EXCEPT !.source = config[n].name]
          ELSE LastPublished(f[n])[i]]

\* C17: when getDiagnostics returns, its result is the concatenation, over
\* the backends that claim the file in routed order, of the list each one
\* published last for the document; an entry keeps its source if it has one
\* and gets the name of its backend otherwise.
C17_DiagnosticsMerged ==
  [][
    \A o \in DOMAIN ops :
      (/\ ops[o].kind = "diagnostics"
       /\ ops[o].pc # "done"
       /\ ops'[o].pc = "done"
       /\ ops'[o].status = "ok")
      => \E f \in LastPublishers :
           ops'[o].merged = ExpectedDiagnostics(f, Len(config))
  ]_vars

(***************************************************************************)
(* The workspace edit applier (src/src/file-edits.ts).  A text is the      *)
(* sequence of its UTF-16 code units; a position is [line, character],     *)
(* both counted from 0; an edit is [start, end, newText] with start and    *)
(* end the positions of edit.range.                                        *)
(***************************************************************************)
MaxEdits == 2       \* edits for one file
MaxCharacter == 2   \* largest character of a position
MaxLine == 1        \* largest line of a position

Min(a, b) == IF a < b THEN a ELSE b

Max(a, b) == IF a < b THEN b ELSE a

\* computeLineOffsets(text): offset 0 and the offset after every "\n"
computeLineOffsets(text) ==
  LET RECURSIVE scan(_)
      scan(i) ==
        IF i >= Len(text) THEN << >>
        ELSE (IF text[i + 1] = "\n" THEN << i + 1 >> ELSE << >>) \o scan(i + 1)
  IN << 0 >> \o scan(0)

\* offsetAt(lineOffsets, position, text)
offsetAt(lineOffsets, position, text) ==
  LET line == Max(0, position.line)
      character == Max(0, position.character)
  IN IF line >= Len(lineOffsets) THEN Len(text)
     ELSE Min(Len(text), lineOffsets[line + 1] + character)

\* text.slice(from, to)
stringSlice(text, from, to) == SubSeq(text, from + 1, to)

\* A sort that leaves the list as it is.
sortNormalizedNot(list) == list

\* normalized.sort((a, b) => b.start - a.start || b.end - a.end): a stable
\* sort, descending by start and then by end.
RECURSIVE sortNormalized(_)
sortNormalized(list) ==
  IF list = << >> THEN << >>
  ELSE LET before(a, b) == a.start > b.start \/ (a.start = b.start /\ a.end > b.end)
           firsts == {i \in DOMAIN list : \A j \in DOMAIN list : ~before(list[j], list[i])}
           i == CHOOSE k \in firsts : \A j \in firsts : k <= j
       IN << list[i] >>
          \o sortNormalized(SubSeq(list, 1, i - 1) \o SubSeq(list, i + 1, Len(list)))

\* The splice loop of applyTextEditsToContent over the sorted edits.
RECURSIVE spliceAll(_, _)
spliceAll(out, normalized) ==
  IF normalized = << >> THEN [threw |-> FALSE, text |-> out]
  ELSE LET edit == Head(normalized)
       IN IF edit.start > edit.end THEN [threw |-> TRUE, text |-> << >>]
          ELSE spliceAll(stringSlice(out, 0, edit.start) \o edit.newText
                           \o stringSlice(out, edit.end, Len(out)),
                         Tail(normalized))

\* applyTextEditsToContent(content, edits): the new text, or the error thrown
applyTextEditsToContent(content, edits) ==
  IF Len(edits) = 0 THEN [threw |-> FALSE, text |-> content]
  ELSE LET lineOffsets == computeLineOffsets(content)
           normalized ==
             [i \in DOMAIN edits |->
                [start |-> offsetAt(lineOffsets, edits[i].start, content),
                 end |-> offsetAt(lineOffsets, edits[i].end, content),
                 newText |-> edits[i].newText]]
       IN spliceAll(content, sortNormalized(normalized))

Contents ==
  {<< >>, << "\n" >>, << "a", "b" >>, << "a", "\n", "b" >>}

Positions ==
  {[line |-> l, character |-> c] : l \in 0..MaxLine, c \in 0..MaxCharacter}

NewTexts == {<< >>, << "X" >>, << "Y" >>}

TextEdits ==
  {[start |-> a, end |-> b, newText |-> t] :
     a \in Positions, b \in Positions, t \in NewTexts}

EditLists == UNION {[1..n -> TextEdits] : n \in 0..MaxEdits}

\* The example: two edits on two lines of "World\nfoo\n".
ExampleContent == << "W", "o", "r", "l", "d", "\n", "f", "o", "o", "\n" >>

ExampleEdits ==
  << [start |-> [line |-> 0, character |-> 0],
      end |-> [line |-> 0, character |-> 5],
      newText |-> << "H", "e", "l", "l", "o" >>],
     [start |-> [line |-> 1, character |-> 0],
      end |-> [line |-> 1, character |-> 3],
      newText |-> << "X" >>] >>

InitEdits ==
  /\ NoClient
  /\ codec = NoStream
  /\ pruner = NoPrune
  /\ resolver = NoResolver
  /\ router = NoRoute
  /\ tool = NoTool
  /\ \/ \E content \in Contents, edits \in EditLists :
          applier = [NoEdit EXCEPT !.content = content, !.edits = edits]
     \/ applier = [NoEdit EXCEPT !.content = ExampleContent,
                                 !.edits = ExampleEdits]

\* applyTextEditsToContent is called with the content and the edits.
ApplyTextEdits ==
  /\ ~applier.done
  /\ applier' = [applier EXCEPT
       !.done = TRUE,
       !.out = applyTextEditsToContent(applier.content, applier.edits)]
  /\ UNCHANGED << client, pruner, resolver, codec, router, tool >>

NextEdits == ApplyTextEdits

SpecEdits == InitEdits /\ [][NextEdits]_vars

\* The line of the code unit at 1-based index i: the line breaks before it.
LineOf(text, i) == Cardinality({j \in 1..(i - 1) : text[j] = "\n"})

\* The offset of a position: the code units on earlier lines, then character.
PositionOffset(text, position) ==
  Cardinality({i \in DOMAIN text : LineOf(text, i) < position.line})
  + position.character

\* The position is on a line of the text and not beyond the end of it.
ValidPosition(text, position) ==
  /\ position.line <= LineOf(text, Len(text) + 1)
  /\ position.character
       <= Cardinality({i \in DOMAIN text :
                         LineOf(text, i) = position.line /\ text[i] # "\n"})

\* The ranges of the edits are ranges of the text and no two of them overlap.
NonOverlapping(text, edits) ==
  /\ \A i \in DOMAIN edits :
       /\ ValidPosition(text, edits[i].start)
       /\ ValidPosition(text, edits[i].end)
       /\ PositionOffset(text, edits[i].start) <= PositionOffset(text, edits[i].end)
  /\ \A i, j \in DOMAIN edits :
       i # j => \/ PositionOffset(text, edits[i].end)
                     <= PositionOffset(text, edits[j].start)
                \/ PositionOffset(text, edits[j].end)
                     <= PositionOffset(text, edits[i].start)

\* The text with every range replaced, the edits taken from left to right in
\* the order ord; from is the offset up to which the text has been copied.
RECURSIVE SpliceLeftToRight(_, _, _, _)
SpliceLeftToRight(text, edits, ord, from) ==
  IF ord = << >> THEN stringSlice(text, from, Len(text))
  ELSE LET e == edits[Head(ord)]
       IN stringSlice(text, from, PositionOffset(text, e.start)) \o e.newText
          \o SpliceLeftToRight(text, edits, Tail(ord), PositionOffset(text, e.end))

\* The orders of the edits from left to right in the text (insertions at one
\* position can be taken in any order).
LeftToRightOrders(text, edits) ==
  {ord \in Permutations(DOMAIN edits) :
     \A k \in 1..(Len(edits) - 1) :
       PositionOffset(text, edits[ord[k]].end)
         <= PositionOffset(text, edits[ord[k + 1]].start)}

\* C18: for edits with pairwise non-overlapping ranges applyTextEditsToContent
\* does not throw and returns the content with every range, at its offsets in
\* the original content, replaced by its new text; the two edits of the
\* example turn "World\nfoo\n" into "Hello\nX\n".
C18_EditsSplicedAtOriginalOffsets ==
  applier.done =>
    /\ NonOverlapping(applier.content, applier.edits) =>
         /\ ~applier.out.threw
         /\ \E ord \in LeftToRightOrders(applier.content, applier.edits) :
              applier.out.text
                = SpliceLeftToRight(applier.content, applier.edits,
                                    [k \in DOMAIN applier.edits |-> ord[k]], 0)
    /\ (applier.content = ExampleContent /\ applier.edits = ExampleEdits) =>
         applier.out.text = << "H", "e", "l", "l", "o", "\n", "X", "\n" >>

\* Two edits given with the later range first were applied: a replacement on
\* the second line and an insertion on the first.
C18_Witness ==
  /\ applier.done
  /\ applier.content = << "a", "\n", "b" >>
  /\ Len(applier.edits) = 2
  /\ NonOverlapping(applier.content, applier.edits)
  /\ applier.edits[1].start = [line |-> 1, character |-> 0]
  /\ applier.edits[1].end = [line |-> 1, character |-> 1]
  /\ applier.edits[2].end = [line |-> 0, character |-> 1]
  /\ applier.out.text = << "a", "X", "\n", "Y" >>

\* C19: for non-overlapping edits, several insertions at one position
\* included, the result of applyTextEditsToContent is the same for every
\* order of the edits in the input list.
C19_OrderIndependent ==
  (applier.done /\ NonOverlapping(applier.content, applier.edits)) =>
    \A perm \in Permutations(DOMAIN applier.edits) :
      applyTextEditsToContent(applier.content,
                              [i \in DOMAIN applier.edits |->
                                 applier.edits[perm[i]]])
        = applier.out

(***************************************************************************)
(* applyWorkspaceEditToDisk: for every entry of edit.changes, in order:    *)
(* mkdir, existence check, backup copy, readFile, applyTextEditsToContent, *)
(* writeFile to a temporary file, rename over the file.  A path is a       *)
(* number; the entries of one edit name distinct files.  One step is the   *)
(* code up to the next await; each file system call may fail.              *)
(***************************************************************************)
MaxFiles == 2       \* files of the workspace

Paths == 1..MaxFiles

\* A file that does not exist / a file with a content.
Missing == [exists |-> FALSE, content |-> << >>]

File(content) == [exists |-> TRUE, content |-> content]

\* The edit lists of an entry: a replacement, none, a range whose start is
\* behind its end.
FileEdits ==
  { << [start |-> [line |-> 0, character |-> 0],
        end |-> [line |-> 0, character |-> 1], newText |-> << "X" >>] >>,
    << >>,
    << [start |-> [line |-> 0, character |-> 2],
        end |-> [line |-> 0, character |-> 0], newText |-> << "X" >>] >> }

\* edit.changes, as Object.entries lists it: entries of distinct files.
Changes ==
  {c \in UNION {[1..n -> [path : Paths, edits : FileEdits]] : n \in 0..MaxFiles} :
     \A i, j \in DOMAIN c : i # j => c[i].path # c[j].path}

Disks == [Paths -> {Missing, File(<< "a", "b" >>)}]

InitApply ==
  /\ NoClient
  /\ codec = NoStream
  /\ pruner = NoPrune
  /\ resolver = NoResolver
  /\ router = NoRoute
  /\ tool = NoTool
  /\ \E changes \in Changes, files \in Disks, createBackups \in BOOLEAN :
       applier = [changes |-> changes, createBackups |-> createBackups,
                  files |-> files, original |-> files,
                  backups |-> [f \in Paths |-> Missing],
                  tmp |-> [f \in Paths |-> Missing],
                  pc |-> "idle", idx |-> 0, updated |-> << >>,
                  filesModified |-> << >>, backupFiles |-> << >>,
                  result |-> [returned |-> FALSE, success |-> FALSE,
                              error |-> "none"]]

\* `return { success: true, filesModified, backupFiles }`
returnSuccess(a) ==
  [a EXCEPT !.pc = "done",
            !.result = [returned |-> TRUE, success |-> TRUE, error |-> "none"]]

\* A catch block that reports no modified file.
catchForgetsModified(a, error) ==
  [a EXCEPT !.pc = "done", !.filesModified = << >>,
            !.result = [returned |-> TRUE, success |-> FALSE, error |-> error]]

\* `catch (error) { return { success: false, filesModified, backupFiles, error } }`
catch(a, error) ==
  [a EXCEPT !.pc = "done",
            !.result = [returned |-> TRUE, success |-> FALSE, error |-> error]]

\* applyWorkspaceEditToDisk up to the first mkdir.
applyWorkspaceEditToDisk ==
  /\ applier.pc = "idle"
  /\ applier' = IF Len(applier.changes) = 0 THEN returnSuccess(applier)
                ELSE [applier EXCEPT !.pc = "mkdir", !.idx = 1]
  /\ UNCHANGED << client, pruner, resolver, codec, router, tool >>

\* mkdir has settled: the existence check and the backup copy, up to readFile.
MkdirDone ==
  /\ applier.pc = "mkdir"
  /\ LET f == applier.changes[applier.idx].path
     IN \/ applier' = catch(applier, "mkdir")
        \/ /\ ~applier.files[f].exists
           /\ applier' = catch(applier, "File does not exist")
        \/ /\ applier.files[f].exists
           /\ applier.createBackups
           /\ \/ applier' = catch(applier, "copyFile")
              \/ applier' = [applier EXCEPT
                   !.backups[f] = applier.files[f],
                   !.backupFiles = Append(@, f),
                   !.pc = "readFile"]
        \/ /\ applier.files[f].exists
           /\ ~applier.createBackups
           /\ applier' = [applier EXCEPT !.pc = "readFile"]
  /\ UNCHANGED << client, pruner, resolver, codec, router, tool >>

\* readFile has settled: the edits are applied to the text, up to writeFile.
ReadFileDone ==
  /\ applier.pc = "readFile"
  /\ LET entry == applier.changes[applier.idx]
         updated == applyTextEditsToContent(applier.files[entry.path].content,
                                            entry.edits)
     IN \/ applier' = catch(applier, "readFile")
        \/ /\ updated.threw
           /\ applier' = catch(applier, "Invalid edit")
        \/ /\ ~updated.threw
           /\ applier' = [applier EXCEPT !.pc = "writeFile",
                                         !.updated = updated.text]
  /\ UNCHANGED << client, pruner, resolver, codec, router, tool >>

\* writeFile of the temporary file has settled.
WriteFileDone ==
  /\ applier.pc = "writeFile"
  /\ LET f == applier.changes[applier.idx].path
     IN \/ applier' = catch(applier, "writeFile")
        \/ applier' = [applier EXCEPT !.tmp[f] = File(applier.updated),
                                      !.pc = "rename"]
  /\ UNCHANGED << client, pruner, resolver, codec, router, tool >>

\* rename has settled: the file is replaced and listed; the next entry, or
\* the return.
RenameDone ==
  /\ applier.pc = "rename"
  /\ LET f == applier.changes[applier.idx].path
         replaced == [applier EXCEPT !.files[f] = applier.tmp[f],
                                     !.tmp[f] = Missing,
                                     !.filesModified = Append(@, f)]
     IN \/ applier' = catch(applier, "rename")
        \/ applier' = IF applier.idx < Len(applier.changes)
                      THEN [replaced EXCEPT !.pc = "mkdir", !.idx = @ + 1]
                      ELSE returnSuccess(replaced)
  /\ UNCHANGED << client, pruner, resolver, codec, router, tool >>

NextApply ==
  \/ applyWorkspaceEditToDisk
  \/ MkdirDone
  \/ ReadFileDone
  \/ WriteFileDone
  \/ RenameDone

SpecApply == InitApply /\ [][NextApply]_vars

\* C20: when the apply has failed at an entry, the result has success=false,
\* filesModified lists exactly the files of the entries before it, those
\* files have their new content, and the file of the failing entry and of
\* every later entry has its original content.
C20_FailureStopsApply ==
  (applier.result.returned /\ ~applier.result.success) =>
    LET a == applier
    IN /\ a.filesModified = [k \in 1..(a.idx - 1) |-> a.changes[k].path]
       /\ \A k \in 1..(a.idx - 1) :
            a.files[a.changes[k].path]
              = File(applyTextEditsToContent(
                       a.original[a.changes[k].path].content,
                       a.changes[k].edits).text)
       /\ \A k \in a.idx..Len(a.changes) :
            a.files[a.changes[k].path] = a.original[a.changes[k].path]

\* The first file was replaced and the second failed on an edit whose start
\* is behind its end.
C20_Witness ==
  /\ applier.result.returned
  /\ ~applier.result.success
  /\ applier.result.error = "Invalid edit"
  /\ applier.idx = 2
  /\ applier.filesModified # << >>
  /\ applier.files[applier.changes[1].path] = File(<< "X", "b" >>)

(***************************************************************************)
(* The start of an instance: the registry, the in-flight marker and the    *)
(* callers that await the start (getServerForConfig, initializeServer).    *)
(***************************************************************************)
\* The handshake of process p has succeeded: its initialize request was
\* resolved and the initialized notification written.
HandshakeSucceeded(p) ==
  /\ \E rid \in DOMAIN requests :
       /\ requests[rid].proc = p
       /\ requests[rid].method = "initialize"
       /\ requests[rid].outcome = "resolved"
  /\ \E i \in DOMAIN Stdin(p) : Stdin(p)[i].method = "initialized"

\* The call has received the failure of the start of process p.
ReceivedStartFailure(op, p) ==
  \/ /\ op.pc = "done"
     /\ op.status = "error"
  \/ /\ op.tried # << >>
     /\ op.tried[Len(op.tried)].proc = p
     /\ op.tried[Len(op.tried)].outcome = "startFailed"

\* C21: an instance is registered only after its handshake has succeeded,
\* and its marker is then cleared.  At the step where the handshake of a
\* process fails (error response or timeout) every call that awaits its start
\* receives the failure, the marker of the key is cleared and the registry
\* is left as it is, without the process; a failed process is in neither
\* map, and an acquire for a key with no instance and no marker spawns a new
\* process.
C21_RegisteredOnlyOnSuccess ==
  [][
    /\ \A k \in Cfg :
         (servers'[k] # servers[k] /\ servers'[k] # 0)
           => /\ \E q \in Proc : q = servers'[k] /\ HandshakeSucceeded(q)'
              /\ serversStarting'[k] = 0
    /\ \A p \in Proc :
         (state[p].phase = "initializing" /\ state'[p].phase = "failed")
           => /\ \A o \in DOMAIN ops :
                   Waiting(o, p) => ReceivedStartFailure(ops'[o], p)
              /\ serversStarting'[state[p].config] = 0
              /\ servers' = servers
              /\ servers[state[p].config] # p
    /\ \A p \in Proc :
         state'[p].phase = "failed"
           => /\ servers'[state'[p].config] # p
              /\ serversStarting'[state'[p].config] # p
    /\ \A o \in DOMAIN ops :
         (/\ ops[o].pc = "acquire"
          /\ ops'[o].pc # "acquire"
          /\ servers[OpConfig(ops[o])] = 0
          /\ serversStarting[OpConfig(ops[o])] = 0)
         => /\ nprocs' = nprocs + 1
            /\ ops'[o].proc = nprocs'
            /\ state'[nprocs'].phase = "initializing"
  ]_vars

\* Two calls awaited the start of process 1, its handshake failed, both
\* received the failure and a later acquire spawned process 2.
C21_Witness ==
  /\ state[1].phase = "failed"
  /\ \A o \in DOMAIN ops :
       /\ ops[o].tried # << >>
       /\ ops[o].tried[1].proc = 1
       /\ ops[o].tried[1].outcome = "startFailed"
  /\ Cardinality(DOMAIN ops) >= 2
  /\ state[2].phase = "initializing"
  /\ serversStarting[1] = 2

(***************************************************************************)
(* restartServers(extensions): kill and evict the registered instances     *)
(* whose config extensions meet the given tokens.  killed marks a process  *)
(* that process.kill() has signalled; its exit event comes in a later turn *)
(* of the event loop.                                                      *)
(***************************************************************************)
MaxRestarts == 2    \* calls of restartServers in one run

\* String.prototype.toLowerCase on the tokens of the model
toLowerCase(e) ==
  CASE e = "TS" -> "ts"
    [] e = "JS" -> "js"
    [] OTHER -> e

\* The extensions argument of restartServers: omitted, or a list of tokens.
WantedChoices ==
  {[given |-> FALSE, tokens |-> << >>]} \cup
  {[given |-> TRUE, tokens |-> t] : t \in {<< >>, << "ts" >>, << "JS" >>, << "py", "js" >>}}

\* `!wanted || state.config.extensions.some((ext) => wanted.includes(ext.toLowerCase()))`
restartMatches(cfg, extensions) ==
  LET wanted == [i \in DOMAIN extensions |-> toLowerCase(extensions[i])]
  IN \E i \in DOMAIN cfg.extensions :
       \E j \in DOMAIN wanted : wanted[j] = toLowerCase(cfg.extensions[i])

\* A filter that also takes the instances of every backend when tokens are
\* given.
matchesWantedAlways(k, extensions) == TRUE

matchesWanted(k, extensions) ==
  IF ~extensions.given THEN TRUE
  ELSE restartMatches(config[k], extensions.tokens)

\* The keys of this.servers.entries() that restartServers kills and evicts.
Restarted(extensions) ==
  {k \in DOMAIN config : servers[k] # 0 /\ matchesWanted(k, extensions)}

\* restartServers(extensions): state.process.kill() and
\* this.servers.delete(key) for every matching entry.
restartServers(extensions) ==
  /\ Len(restarted) < MaxRestarts
  /\ state' = [p \in Proc |->
       IF \E k \in Restarted(extensions) : servers[k] = p
       THEN [state[p] EXCEPT !.killed = state[p].alive \/ @]
       ELSE state[p]]
  /\ servers' = [k \in Cfg |->
       IF k \in Restarted(extensions) THEN 0 ELSE servers[k]]
  /\ restarted' = Append(restarted, [extensions |-> extensions,
                                     keys |-> Restarted(extensions)])
  /\ UNCHANGED << config, nstray, codec, router, tool, applier, pruner, resolver, nprocs,
                  serversStarting, nextId, pendingRequests, timers, requests,
                  answered, ops, srvLog >>

\* child.on("exit") of a process that was killed.
ExitKilled(p) ==
  /\ state[p].alive
  /\ state[p].killed
  /\ LET k == state[p].config
     IN /\ state' = [state EXCEPT ![p].alive = FALSE]
        /\ servers' = [servers EXCEPT ![k] = 0]
        /\ serversStarting' = [serversStarting EXCEPT ![k] = 0]
  /\ requests' = [rid \in DOMAIN requests |->
        IF requests[rid].proc = p /\ requests[rid].settles = 0
        THEN [requests[rid] EXCEPT !.orphaned = TRUE]
        ELSE requests[rid]]
  /\ UNCHANGED << outside, nprocs, nextId, pendingRequests, timers, answered,
                  ops, srvLog >>

NextRestart ==
  \/ \E o \in DOMAIN ops : Call(o)
  \/ \E o \in DOMAIN ops : getServerForConfig(o)
  \/ \E o \in DOMAIN ops : UseState(o)
  \/ \E o \in DOMAIN ops : ensureFileOpen(o)
  \/ \E o \in DOMAIN ops : GraceDone(o)
  \/ \E p \in Proc : BackendResponds(p)
  \/ \E p \in Proc : Exit(p)
  \/ \E p \in Proc : WarmupDone(p)
  \/ \E rid \in DOMAIN requests : Timeout(rid)
  \/ \E extensions \in WantedChoices : restartServers(extensions)
  \/ \E p \in Proc : ExitKilled(p)

SpecRestart == Init /\ [][NextRestart]_vars

\* The elements of a list.
Range(list) == {list[i] : i \in DOMAIN list}

\* The routing tokens of backend k meet the given tokens, letter case aside;
\* with no tokens given every backend is meant.
TokensIntersect(k, extensions) ==
  \/ ~extensions.given
  \/ {toLowerCase(e) : e \in Range(config[k].extensions)}
       \cap {toLowerCase(t) : t \in Range(extensions.tokens)} # {}

\* A step of restartServers, and the argument of the call.
RestartStep == restarted' # restarted

RestartArgument == restarted'[Len(restarted')].extensions

\* C22: restartServers signals the process of every registered instance
\* whose routing tokens meet the given tokens (of every registered instance
\* when none are given) and evicts it; the other instances stay registered
\* and untouched; an acquire never hands out a killed process, and one that
\* finds neither an instance nor a start in flight spawns a new process.
C22_RestartKillsAndEvicts ==
  [][
    /\ RestartStep =>
         \A k \in DOMAIN config :
           IF servers[k] # 0 /\ TokensIntersect(k, RestartArgument)
           THEN /\ servers'[k] = 0
                /\ state[servers[k]].alive => state'[servers[k]].killed
           ELSE /\ servers'[k] = servers[k]
                /\ servers[k] # 0 => state'[servers[k]] = state[servers[k]]
    /\ \A o \in DOMAIN ops :
         (ops[o].pc = "acquire" /\ ops'[o].pc # "acquire")
           => /\ ~state'[ops'[o].proc].killed
              /\ (servers[OpConfig(ops[o])] = 0
                  /\ serversStarting[OpConfig(ops[o])] = 0)
                 => (nprocs' = nprocs + 1 /\ ops'[o].proc = nprocs')
  ]_vars

\* The instance of the first backend was killed and evicted, the instance of
\* the second stayed registered and running, and a later acquire for the
\* first backend spawned process 3.
C22_Witness ==
  /\ state[1].killed
  /\ servers[2] = 2
  /\ state[2].alive
  /\ ~state[2].killed
  /\ state[3].config = 1
  /\ state[3].phase = "initializing"
  /\ serversStarting[1] = 3

(***************************************************************************)
(* Routing tokens of a file (getMatchingServerConfigsForFile) and the      *)
(* calls for a file that no configured backend claims.  Here a string is   *)
(* the sequence of its characters and a path is "/w/" and a file name.     *)
(***************************************************************************)
UpperCase ==
  << "A", "B", "C", "D", "E", "F", "G", "H", "I", "J", "K", "L", "M",
     "N", "O", "P", "Q", "R", "S", "T", "U", "V", "W", "X", "Y", "Z" >>

LowerCase ==
  << "a", "b", "c", "d", "e", "f", "g", "h", "i", "j", "k", "l", "m",
     "n", "o", "p", "q", "r", "s", "t", "u", "v", "w", "x", "y", "z" >>

\* String.prototype.toLowerCase on a string of characters
stringToLowerCase(str) ==
  [i \in DOMAIN str |->
     IF \E j \in DOMAIN UpperCase : UpperCase[j] = str[i]
     THEN LowerCase[CHOOSE j \in DOMAIN UpperCase : UpperCase[j] = str[i]]
     ELSE str[i]]

\* The 1-based index of the last occurrence of a character, 0 when absent.
lastIndexOf(str, c) ==
  LET hits == {i \in DOMAIN str : str[i] = c}
  IN IF hits = {} THEN 0 ELSE CHOOSE i \in hits : \A j \in hits : j <= i

\* basename(filePath)
basename(filePath) ==
  SubSeq(filePath, lastIndexOf(filePath, "/") + 1, Len(filePath))

\* extname(filePath).replace(/^\./, ""): what follows the last dot of the
\* base name, "" when it has no dot or only a leading one.
extensionOf(filePath) ==
  LET base == basename(filePath)
      dot == lastIndexOf(base, ".")
  IN IF dot <= 1 THEN << >> ELSE SubSeq(base, dot + 1, Len(base))

\* str.startsWith(prefix)
startsWith(str, prefix) ==
  Len(str) >= Len(prefix) /\ SubSeq(str, 1, Len(prefix)) = prefix

\* nameParts.length >= 3 ? nameParts.slice(-2).join(".") : ""
compoundExtension(fileName) ==
  LET dots == {i \in DOMAIN fileName : fileName[i] = "."}
      last == lastIndexOf(fileName, ".")
      before == lastIndexOf(SubSeq(fileName, 1, last - 1), ".")
  IN IF Cardinality(dots) < 2 THEN << >>
     ELSE SubSeq(fileName, before + 1, Len(fileName))

dockerfile == << "d", "o", "c", "k", "e", "r", "f", "i", "l", "e" >>

gitignore == << "g", "i", "t", "i", "g", "n", "o", "r", "e" >>

\* getFileAliases(fileNameLowercase)
getFileAliases(fileNameLowercase) ==
  (IF fileNameLowercase = dockerfile
      \/ startsWith(fileNameLowercase, dockerfile \o << "." >>)
   THEN << dockerfile >> ELSE << >>)
  \o
  (IF fileNameLowercase = << "." >> \o gitignore
      \/ startsWith(fileNameLowercase, << "." >> \o gitignore \o << "." >>)
   THEN << gitignore >> ELSE << >>)

\* matchKeys of getMatchingServerConfigsForFile: the routing tokens tried
\* for the file.
matchKeys(filePath) ==
  LET ext == stringToLowerCase(extensionOf(filePath))
      fileName == stringToLowerCase(basename(filePath))
      fileNameNoDot == IF startsWith(fileName, << "." >>) THEN Tail(fileName)
                       ELSE << >>
      keys == << ext, compoundExtension(fileName), fileName, fileNameNoDot >>
                \o getFileAliases(fileName)
      nonEmpty(v) == \E i \in DOMAIN v : v[i] \notin Whitespace
  IN SelectSeq(keys, nonEmpty)

\* The servers of a list that claim the file, in configured order.
matchingServers(filePath, list) ==
  LET wanted == {stringToLowerCase(matchKeys(filePath)[i]) :
                   i \in DOMAIN matchKeys(filePath)}
      claims(server) ==
        \E i \in DOMAIN server.extensions :
          stringToLowerCase(server.extensions[i]) \in wanted
  IN IF Len(matchKeys(filePath)) = 0 THEN << >> ELSE SelectSeq(list, claims)

Directory == << "/", "w", "/" >>

\* The file names of the calls.
FileNames ==
  { << "m", ".", "p", "y" >>,
    << "D", "o", "c", "k", "e", "r", "f", "i", "l", "e", ".", "d", "e", "v" >>,
    << "t", "y", "p", "e", "s", ".", "d", ".", "t", "s" >>,
    << ".", "g", "i", "t", "i", "g", "n", "o", "r", "e" >>,
    << "R", "E", "A", "D", "M", "E" >> }

\* The extensions lists of the configured servers.
TokenLists ==
  { << << "c", "s" >> >>,
    << << "P", "Y" >> >>,
    << << "t", "s" >>, << "d", ".", "t", "s" >> >>,
    << dockerfile >>,
    << gitignore, << "r", "e", "a", "d", "m", "e" >> >> }

UnroutedLists ==
  UNION {[1..n -> {[extensions |-> t] : t \in TokenLists}] : n \in 0..2}

\* A configuration and a file that none of its servers claims.
InitUnrouted ==
  /\ state = [p \in Proc |-> NoState]
  /\ nprocs = 0
  /\ servers = [k \in Cfg |-> 0]
  /\ serversStarting = [k \in Cfg |-> 0]
  /\ nextId = 1
  /\ pendingRequests = [x \in {} |-> 0]
  /\ timers = {}
  /\ requests = << >>
  /\ answered = {}
  /\ ops = [o \in 1..NumOps |-> IdleOp]
  /\ srvLog = << >>
  /\ nstray = 0
  /\ restarted = << >>
  /\ codec = NoStream
  /\ pruner = NoPrune
  /\ resolver = NoResolver
  /\ tool = NoTool
  /\ applier = NoEdit
  /\ \E list \in UnroutedLists, name \in FileNames :
       /\ router = [NoRoute EXCEPT !.servers = list,
                                   !.filePath = Directory \o name]
       /\ config = matchingServers(Directory \o name, list)
       /\ config = << >>

NextUnrouted ==
  \/ \E o \in DOMAIN ops : Call(o)
  \/ \E o \in DOMAIN ops : getDiagnostics(o)

SpecUnrouted == InitUnrouted /\ [][NextUnrouted]_vars

\* The text has the token in it, as written.
Mentions(text, token) ==
  \E i \in 0..(Len(text) - Len(token)) :
    SubSeq(text, i + 1, i + Len(token)) = token

\* C23: a call for a file that no configured backend claims ends at once
\* with the routing error; its message reports every routing token tried
\* for the file; no process is spawned and nothing is written to a backend.
C23_RoutingErrorReportsTokens ==
  \A o \in DOMAIN ops :
    /\ ops[o].pc \in {"idle", "done"}
    /\ ops[o].pc = "done" =>
         /\ ops[o].status = "error"
         /\ ops[o].error = "routing"
         /\ nprocs = 0
         /\ \A p \in Proc : state[p] = NoState
         /\ requests = << >>
         /\ \A i \in DOMAIN matchKeys(router.filePath) :
              Mentions(ops[o].message, matchKeys(router.filePath)[i])

(***************************************************************************)
(* syncFileContent(filePath): read the file, collect the instances of the  *)
(* backends that claim it, and send each one didChange with the next       *)
(* version, or didOpen when the document is not open on it.                *)
(***************************************************************************)
\* The loop of syncFileContent over states from op.idx on, up to the next
\* await (the readFile of ensureFileOpen) or the return.
RECURSIVE syncLoop(_, _)
syncLoop(op, st) ==
  IF op.idx > Len(States(op))
  THEN [op |-> Return(op, "ok", "none", << >>), st |-> st]
  ELSE LET p == States(op)[op.idx].proc
           nextVersion == st[p].fileVersions + 1
       IN IF ~st[p].openFiles
          THEN [op |-> [op EXCEPT !.pc = "syncOpening"], st |-> st]
          ELSE syncLoop([op EXCEPT !.idx = @ + 1],
                        sendNotification(
                          [st EXCEPT ![p].fileVersions = nextVersion,
                                     ![p].text = op.text],
                          p, "textDocument/didChange", nextVersion))

\* A caller invokes syncFileContent for the file: up to `await readFile`.
syncFileContent(o) ==
  /\ ops[o].pc = "idle"
  /\ ops' = [ops EXCEPT ![o] = [IdleOp EXCEPT !.kind = "sync",
                                              !.pc = "syncRead"]]
  /\ UNCHANGED << outside, state, nprocs, servers, serversStarting, nextId,
                  pendingRequests, timers, requests, answered, srvLog >>

\* readFile has settled: getServerStatesForFile begins.
syncFileContentRead(o) ==
  /\ ops[o].pc = "syncRead"
  /\ ops' = [ops EXCEPT ![o] =
               IF Len(config) = 0 THEN NoServerConfigured(@)
               ELSE [@ EXCEPT !.pc = "acquire", !.idx = 1,
                              !.text = readFile]]
  /\ UNCHANGED << outside, state, nprocs, servers, serversStarting, nextId,
                  pendingRequests, timers, requests, answered, srvLog >>

\* The states are collected: the loop over them.
syncFileContentEach(o) ==
  /\ ops[o].pc = "syncEach"
  /\ LET r == syncLoop(ops[o], state)
     IN /\ ops' = [ops EXCEPT ![o] = r.op]
        /\ state' = r.st
  /\ UNCHANGED << outside, nprocs, servers, serversStarting, nextId,
                  pendingRequests, timers, requests, answered, srvLog >>

\* The readFile of ensureFileOpen has settled inside the loop: the document
\* is marked open with version 1, didOpen is sent and the loop goes on.
syncFileContentOpened(o) ==
  /\ ops[o].pc = "syncOpening"
  /\ LET p == States(ops[o])[ops[o].idx].proc
         st == sendNotification(
                 [state EXCEPT ![p].openFiles = TRUE, ![p].fileVersions = 1,
                               ![p].text = readFile],
                 p, "textDocument/didOpen", 1)
         r == syncLoop([ops[o] EXCEPT !.idx = @ + 1], st)
     IN /\ ops' = [ops EXCEPT ![o] = r.op]
        /\ state' = r.st
  /\ UNCHANGED << outside, nprocs, servers, serversStarting, nextId,
                  pendingRequests, timers, requests, answered, srvLog >>

(***************************************************************************)
(* The rename_symbol handler of the tool server (handleRenameSymbol):      *)
(* findSymbolsByName, renameSymbol, then the preview of a dry run or       *)
(* applyWorkspaceEditToDisk with backups and syncFileContent for every     *)
(* modified file.  Call 1 of the coordinator is the call the handler       *)
(* awaits; tool.symbols is what the backend answers to documentSymbol, and *)
(* tool.edit and tool.documentChanges are the `changes` and the            *)
(* `documentChanges` members of what it answers to rename.  The edits are  *)
(* about the file of the call, path 1.                                     *)
(***************************************************************************)
\* The forms of a workspace edit that the capabilities of the initialize
\* request allow: `workspaceEdit: { documentChanges: true }`.
EditForms == {"changes", "documentChanges"}

\* The workspace edits a backend answers a rename with.
RenameEdits ==
  {<< >>} \cup {<< [path |-> 1, edits |-> e] >> : e \in FileEdits}

\* The applier before applyWorkspaceEditToDisk is called, over a disk.
NoApply(files) ==
  [changes |-> << >>, createBackups |-> TRUE,
   files |-> files, original |-> files,
   backups |-> [f \in Paths |-> Missing],
   tmp |-> [f \in Paths |-> Missing],
   pc |-> "idle", idx |-> 0, updated |-> << >>,
   filesModified |-> << >>, backupFiles |-> << >>,
   result |-> [returned |-> FALSE, success |-> FALSE, error |-> "none"]]

InitRename ==
  /\ config \in Configurations
  /\ state = [p \in Proc |-> NoState]
  /\ nprocs = 0
  /\ servers = [k \in Cfg |-> 0]
  /\ serversStarting = [k \in Cfg |-> 0]
  /\ nextId = 1
  /\ pendingRequests = [x \in {} |-> 0]
  /\ timers = {}
  /\ requests = << >>
  /\ answered = {}
  /\ ops = [o \in 1..NumOps |-> IdleOp]
  /\ srvLog = << >>
  /\ nstray = 0
  /\ restarted = << >>
  /\ codec = NoStream
  /\ pruner = NoPrune
  /\ resolver = NoResolver
  /\ router = NoRoute
  /\ \E files \in Disks : applier = NoApply(files)
  /\ \E docs \in SymbolFiles, kind \in SymbolKindArgs, dry_run \in BOOLEAN,
        edit \in RenameEdits, form \in EditForms :
       tool = [NoTool EXCEPT
                 !.symbols = docs, !.symbol_name = "Foo",
                 !.symbol_kind = kind, !.dry_run = dry_run,
                 !.edit = IF form = "changes" THEN edit ELSE << >>,
                 !.documentChanges =
                    IF form = "documentChanges" THEN edit ELSE << >>]

\* handleRenameSymbol up to `await findSymbolsByName`, which is in
\* getDocumentSymbols.
handleRenameSymbol ==
  /\ tool.pc = "idle"
  /\ tool' = [tool EXCEPT !.pc = "symbols"]
  /\ ops' = [ops EXCEPT ![1] = [IdleOp EXCEPT !.kind = "documentSymbol",
                                              !.pc = "acquire", !.idx = 1]]
  /\ UNCHANGED << config, state, nprocs, servers, serversStarting, nextId,
                  pendingRequests, timers, requests, answered, srvLog, nstray,
                  restarted, codec, router, applier, pruner,
                  resolver >>

\* A handler that renames the first match when several match.
handleRenameSymbolMatchedFirst ==
  /\ tool.pc = "symbols"
  /\ ops[1].pc = "done"
  /\ LET docs == IF ops[1].status = "ok" THEN tool.symbols ELSE << >>
         matches == findSymbolsByName(docs, tool.symbol_name, tool.symbol_kind)
     IN IF Len(matches) = 0
        THEN /\ tool' = [tool EXCEPT !.pc = "done", !.response = "noSymbols"]
             /\ UNCHANGED ops
        ELSE /\ tool' = [tool EXCEPT !.pc = "rename",
                                     !.matches = << matches[1] >>]
             /\ ops' = [ops EXCEPT ![1] = [IdleOp EXCEPT !.kind = "rename",
                                                         !.pc = "acquire",
                                                         !.idx = 1]]
  /\ UNCHANGED << config, state, nprocs, servers, serversStarting, nextId,
                  pendingRequests, timers, requests, answered, srvLog, nstray,
                  restarted, codec, router, applier, pruner,
                  resolver >>

\* handleRenameSymbol after findSymbolsByName: no match, several matches, or
\* the call of renameSymbol.
handleRenameSymbolMatched ==
  /\ tool.pc = "symbols"
  /\ ops[1].pc = "done"
  /\ LET docs == IF ops[1].status = "ok" THEN tool.symbols ELSE << >>
         matches == findSymbolsByName(docs, tool.symbol_name, tool.symbol_kind)
     IN IF Len(matches) = 0
        THEN /\ tool' = [tool EXCEPT !.pc = "done", !.response = "noSymbols"]
             /\ UNCHANGED ops
        ELSE IF Len(matches) > 1
        THEN /\ tool' = [tool EXCEPT
                  !.pc = "done", !.response = "ambiguous", !.matches = matches,
                  !.candidates =
                     [i \in DOMAIN matches |->
                        [line |-> matches[i].position + 1,
                         kind |-> symbolKindToString(matches[i].kind)]]]
             /\ UNCHANGED ops
        ELSE /\ tool' = [tool EXCEPT !.pc = "rename", !.matches = matches]
             /\ ops' = [ops EXCEPT ![1] = [IdleOp EXCEPT !.kind = "rename",
                                                         !.pc = "acquire",
                                                         !.idx = 1]]
  /\ UNCHANGED << config, state, nprocs, servers, serversStarting, nextId,
                  pendingRequests, timers, requests, answered, srvLog, nstray,
                  restarted, codec, router, applier, pruner,
                  resolver >>

\* A handler that takes no call for a dry run.
isDryRunNever(t) == FALSE

\* `if (dry_run)`
isDryRun(t) == t.dry_run

\* handleRenameSymbol after renameSymbol: the error leaves the handler; a dry
\* run answers with the preview; otherwise applyWorkspaceEditToDisk(edit,
\* { createBackups: true }) runs up to its first mkdir.
handleRenameSymbolRenamed ==
  /\ tool.pc = "rename"
  /\ ops[1].pc = "done"
  /\ IF ops[1].status # "ok"
     THEN /\ tool' = [tool EXCEPT !.pc = "done", !.response = "threw"]
          /\ UNCHANGED applier
     ELSE IF isDryRun(tool)
     THEN /\ tool' = [tool EXCEPT !.pc = "done", !.response = "preview",
                                  !.fileCount = Len(tool.edit)]
          /\ UNCHANGED applier
     ELSE /\ tool' = [tool EXCEPT !.pc = "apply"]
          /\ applier' =
               IF Len(tool.edit) = 0
               THEN returnSuccess([applier EXCEPT !.changes = tool.edit])
               ELSE [applier EXCEPT !.changes = tool.edit, !.pc = "mkdir",
                                    !.idx = 1]
  /\ UNCHANGED << client, pruner, resolver, codec, router >>

\* The length of every stdin when applyWorkspaceEditToDisk has returned.
StdinLengths == [p \in Proc |-> Len(state[p].stdin)]

\* A handler that answers after the edit is applied without any sync.
handleRenameSymbolAppliedUnsynced ==
  /\ tool.pc = "apply"
  /\ applier.pc = "done"
  /\ tool' = [tool EXCEPT !.pc = "done", !.appliedAt = StdinLengths,
                          !.response = IF applier.result.success
                                       THEN "renamed" ELSE "applyFailed"]
  /\ UNCHANGED << config, state, nprocs, servers, serversStarting, nextId,
                  pendingRequests, timers, requests, answered, srvLog, nstray,
                  restarted, codec, router, applier, pruner,
                  resolver, ops >>

\* handleRenameSymbol after applyWorkspaceEditToDisk: the failure is
\* answered, or syncFileContent is called for the modified file.
handleRenameSymbolApplied ==
  /\ tool.pc = "apply"
  /\ applier.pc = "done"
  /\ IF ~applier.result.success
     THEN /\ tool' = [tool EXCEPT !.pc = "done", !.response = "applyFailed"]
          /\ UNCHANGED ops
     ELSE IF applier.filesModified = << >>
     THEN /\ tool' = [tool EXCEPT !.pc = "done", !.response = "renamed",
                                  !.appliedAt = StdinLengths]
          /\ UNCHANGED ops
     ELSE /\ tool' = [tool EXCEPT !.pc = "sync", !.appliedAt = StdinLengths]
          /\ ops' = [ops EXCEPT ![1] = [IdleOp EXCEPT !.kind = "sync",
                                                      !.pc = "syncRead"]]
  /\ UNCHANGED << config, state, nprocs, servers, serversStarting, nextId,
                  pendingRequests, timers, requests, answered, srvLog, nstray,
                  restarted, codec, router, applier, pruner,
                  resolver >>

\* handleRenameSymbol after syncFileContent: the answer.
handleRenameSymbolSynced ==
  /\ tool.pc = "sync"
  /\ ops[1].pc = "done"
  /\ tool' = [tool EXCEPT !.pc = "done",
                          !.response = IF ops[1].status = "ok" THEN "renamed"
                                       ELSE "threw"]
  /\ UNCHANGED << client, pruner, resolver, codec, router, applier >>

NextRename ==
  \/ handleRenameSymbol
  \/ handleRenameSymbolMatched
  \/ handleRenameSymbolRenamed
  \/ handleRenameSymbolApplied
  \/ handleRenameSymbolSynced
  \/ MkdirDone
  \/ ReadFileDone
  \/ WriteFileDone
  \/ RenameDone
  \/ \E o \in DOMAIN ops : getServerForConfig(o)
  \/ \E o \in DOMAIN ops : UseState(o)
  \/ \E o \in DOMAIN ops : ensureFileOpen(o)
  \/ \E o \in DOMAIN ops : GraceDone(o)
  \/ \E o \in DOMAIN ops : syncFileContentRead(o)
  \/ \E o \in DOMAIN ops : syncFileContentEach(o)
  \/ \E o \in DOMAIN ops : syncFileContentOpened(o)
  \/ \E p \in Proc : BackendResponds(p)
  \/ \E p \in Proc : WarmupDone(p)

SpecRename == InitRename /\ [][NextRename]_vars

\* The didChange notifications written to the backends.
DidChanges ==
  {<< p, i >> \in Proc \X (1..100) :
     i \in DOMAIN Stdin(p) /\ Stdin(p)[i].method = "textDocument/didChange"}

\* C24: a rename with dry_run = true writes nothing: at every moment of the
\* call every file has its original content, no backup and no temporary
\* file exists and no didChange has been sent; and when it answers with the
\* preview, the rename request has been written to a backend.
C24_DryRunWritesNothing ==
  tool.dry_run =>
    /\ applier.files = applier.original
    /\ \A f \in Paths : applier.backups[f] = Missing /\ applier.tmp[f] = Missing
    /\ DidChanges = {}
    /\ tool.response = "preview" =>
         \E p \in Proc : \E i \in DOMAIN Stdin(p) :
           Stdin(p)[i].method = OpMethod("rename")
    /\ tool.response \notin {"renamed", "applyFailed"}

\* A dry run answered with the preview of an edit that would have replaced
\* the first character of the existing file.
C24_Witness ==
  /\ tool.dry_run
  /\ tool.response = "preview"
  /\ tool.fileCount = 1
  /\ applier.files[1] = File(<< "a", "b" >>)
  /\ applyTextEditsToContent(applier.files[1].content, tool.edit[1].edits).text
       = << "X", "b" >>

(***************************************************************************)
(* The prune command (src/src/prune.ts).  One run of PruneCommand.run over *)
(* a command line, a platform, a terminal and a file system.  A step is    *)
(* the code between two awaits: the questions of readline and the rm of    *)
(* one path.                                                               *)
(***************************************************************************)
MaxArgs == 3

ArgTokens ==
  {"--help", "--list", "--dry-run", "--yes", "-y", "--all", "--target",
   "enrilsp", "nope"}

Argvs == UNION {[1..n -> ArgTokens] : n \in 0..MaxArgs}

\* getTargets(): the targets of the platform, two of the five.
getTargets(platform) ==
  IF platform # "win32" THEN << >>
  ELSE << [id |-> "enrilsp", paths |-> << "EnriLSP" >>],
          [id |-> "jdtls", paths |-> << "EnriLSP/jdtls", "jdtls" >>] >>

PrunePaths == {"EnriLSP", "EnriLSP/jdtls", "jdtls"}

\* The paths rm(path, {recursive: true}) removes: the folder and what is in it.
Below(path) ==
  IF path = "EnriLSP" THEN {"EnriLSP", "EnriLSP/jdtls"} ELSE {path}

\* The file systems: a folder that exists has its parent.
PruneDisks ==
  {d \in SUBSET PrunePaths : "EnriLSP/jdtls" \in d => "EnriLSP" \in d}

NoArgs ==
  [help |-> FALSE, list |-> FALSE, dryRun |-> FALSE, yes |-> FALSE,
   all |-> FALSE, targets |-> << >>]

\* The loop of parseArgs from index i.
RECURSIVE parseArgsFrom(_, _, _)
parseArgsFrom(argv, i, out) ==
  IF i > Len(argv) THEN out
  ELSE LET a == argv[i]
       IN IF a = "--help" THEN parseArgsFrom(argv, i + 1, [out EXCEPT !.help = TRUE])
          ELSE IF a = "--list"
          THEN parseArgsFrom(argv, i + 1, [out EXCEPT !.list = TRUE])
          ELSE IF a = "--dry-run"
          THEN parseArgsFrom(argv, i + 1, [out EXCEPT !.dryRun = TRUE])
          ELSE IF a = "--yes" \/ a = "-y"
          THEN parseArgsFrom(argv, i + 1, [out EXCEPT !.yes = TRUE])
          ELSE IF a = "--all"
          THEN parseArgsFrom(argv, i + 1, [out EXCEPT !.all = TRUE])
          ELSE IF a = "--target"
          THEN IF i + 1 <= Len(argv)
               THEN parseArgsFrom(argv, i + 2,
                      [out EXCEPT !.targets = Append(@, argv[i + 1])])
               ELSE parseArgsFrom(argv, i + 1, out)
          ELSE parseArgsFrom(argv, i + 1, out)

\* parseArgs(argv): the flags, or the throw for --yes with --dry-run.
parseArgs(argv) ==
  LET out == parseArgsFrom(argv, 1, NoArgs)
  IN [threw |-> out.yes /\ out.dryRun, out |-> out]

\* value.trim().toLowerCase() over the answers of the model.
trimLower(value) ==
  CASE value = "Y" -> "y"
    [] value = " yes " -> "yes"
    [] value = "SI" -> "si"
    [] OTHER -> value

\* isTruthy(value).
isTruthy(value) ==
  LET v == trimLower(value)
  IN v = "y" \/ v = "yes" \/ v = "s" \/ v = "si"

ConfirmAnswers == {"y", "Y", " yes ", "s", "SI", "n", "", "no"}

\* The answers to the selection prompt, split at commas and blanks.
SelectAnswers ==
  {<< >>, << "a" >>, << "all" >>, << "1" >>, << "2" >>, << "2", "1" >>,
   << "1", "1" >>, << "3" >>, << "1", "a" >>}

\* Number.parseInt(part, 10) of one part of the answer: 0 stands for NaN,
\* which the range check rejects as it rejects 0.(part, 10): 0 stands for NaN, which the range check
\* rejects as it rejects 0.
selectionNumber(part) ==
  CASE part = "1" -> 1
    [] part = "2" -> 2
    [] part = "3" -> 3
    [] OTHER -> 0

\* The paths of the selected targets, in the order of the two loops.
RECURSIVE pathsOf(_)
pathsOf(selected) ==
  IF selected = << >> THEN << >>
  ELSE Head(selected).paths \o pathsOf(Tail(selected))

\* The loop over the paths up to the next await of deleteTarget, or to
\* its end.
RECURSIVE pruneLoop(_)
pruneLoop(pr) ==
  IF pr.queue = << >> THEN [pr EXCEPT !.pc = "done"]
  ELSE IF Head(pr.queue) \notin pr.exists
  THEN pruneLoop([pr EXCEPT !.queue = Tail(@)])
  ELSE IF pr.args.dryRun
  THEN pruneLoop([pr EXCEPT !.queue = Tail(@)])
  ELSE [pr EXCEPT !.pc = "rm"]

\* run from the end of the selection on.
startPruning(pr, selected) ==
  pruneLoop([pr EXCEPT !.selected = selected, !.queue = pathsOf(selected)])

\* targets.filter(keep), in the order of targets.
RECURSIVE filterTargets(_, _)
filterTargets(targets, ids) ==
  IF targets = << >> THEN << >>
  ELSE (IF Head(targets).id \in ids THEN << Head(targets) >> ELSE << >>)
       \o filterTargets(Tail(targets), ids)

\* PruneCommand.run(argvFull) up to its first await.
run ==
  /\ pruner.pc = "idle"
  /\ LET argvFull == pruner.argvFull
         argv == IF Len(argvFull) > 0 /\ argvFull[1] = "prune"
                 THEN Tail(argvFull) ELSE argvFull
         parsed == parseArgs(argv)
         args == parsed.out
         pr == [pruner EXCEPT !.args = args]
         targets == getTargets(pruner.platform)
         targetIds == {targets[i].id : i \in DOMAIN targets}
         requestedIds == IF args.all THEN targetIds ELSE Range(args.targets)
         canPrompt == pruner.canPrompt
     IN pruner' =
          IF parsed.threw THEN [pruner EXCEPT !.pc = "threw"]
          ELSE IF args.help THEN [pr EXCEPT !.pc = "done"]
          ELSE IF Len(targets) = 0
          THEN [pr EXCEPT !.pc = "done", !.exitCode = 1]
          ELSE IF args.list THEN [pr EXCEPT !.pc = "done"]
          ELSE IF ~canPrompt /\ requestedIds = {}
          THEN [pr EXCEPT !.pc = "done", !.exitCode = 1]
          ELSE IF ~canPrompt /\ ~args.dryRun /\ ~args.yes
          THEN [pr EXCEPT !.pc = "done", !.exitCode = 1]
          ELSE IF requestedIds # {}
          THEN IF requestedIds \ targetIds # {}
               THEN [pr EXCEPT !.pc = "threw"]
               ELSE startPruning(pr, filterTargets(targets, requestedIds))
          ELSE [pr EXCEPT !.pc = "select"]
  /\ UNCHANGED << client, resolver, codec, router, tool, applier >>

\* The answer to the selection prompt arrives: promptSelectTargets ends
\* and run goes on to the confirmation prompt.
questionSelect(answer) ==
  /\ pruner.pc = "select"
  /\ LET targets == getTargets(pruner.platform)
         all == answer = << "a" >> \/ answer = << "all" >>
         invalid == \E i \in DOMAIN answer :
                      selectionNumber(answer[i]) < 1 \/ selectionNumber(answer[i]) > Len(targets)
         indexes == {selectionNumber(answer[i]) : i \in DOMAIN answer}
         selected == IF all THEN targets
                     ELSE filterTargets(targets,
                            {targets[n].id : n \in indexes \cap DOMAIN targets})
     IN pruner' =
          IF ~all /\ answer # << >> /\ invalid THEN [pruner EXCEPT !.pc = "threw"]
          ELSE IF Len(selected) = 0 THEN [pruner EXCEPT !.pc = "done"]
          ELSE IF ~pruner.args.yes
          THEN [pruner EXCEPT !.selected = selected, !.pc = "confirm"]
          ELSE startPruning(pruner, selected)
  /\ UNCHANGED << client, resolver, codec, router, tool, applier >>

\* The answer to the confirmation prompt arrives.
questionConfirm(answer) ==
  /\ pruner.pc = "confirm"
  /\ pruner' =
       IF ~isTruthy(answer)
       THEN [pruner EXCEPT !.confirm = answer, !.pc = "done"]
       ELSE startPruning([pruner EXCEPT !.confirm = answer], pruner.selected)
  /\ UNCHANGED << client, resolver, codec, router, tool, applier >>

\* deleteTarget(path) settles: rm removed the folder, or it failed and
\* the exit code is 1; the loop goes on.
deleteTargetDone(ok) ==
  /\ pruner.pc = "rm"
  /\ LET path == Head(pruner.queue)
     IN pruner' =
          IF ok
          THEN pruneLoop([pruner EXCEPT !.exists = @ \ Below(path),
                                        !.deleted = Append(@, path),
                                        !.queue = Tail(@)])
          ELSE pruneLoop([pruner EXCEPT !.exitCode = 1, !.queue = Tail(@)])
  /\ UNCHANGED << client, resolver, codec, router, tool, applier >>

InitPrune ==
  /\ NoClient
  /\ codec = NoStream
  /\ resolver = NoResolver
  /\ router = NoRoute
  /\ tool = NoTool
  /\ applier = NoEdit
  /\ \E platform \in {"win32", "linux"}, canPrompt \in BOOLEAN,
        argv \in Argvs, exists \in PruneDisks :
       pruner = [NoPrune EXCEPT !.platform = platform,
                   !.canPrompt = canPrompt,
                   !.argvFull = << "prune" >> \o argv,
                   !.exists = exists, !.pc = "idle"]

NextPrune ==
  \/ run
  \/ \E answer \in SelectAnswers : questionSelect(answer)
  \/ \E answer \in ConfirmAnswers : questionConfirm(answer)
  \/ \E ok \in BOOLEAN : deleteTargetDone(ok)

SpecPrune == InitPrune /\ [][NextPrune]_vars

\* C25: prune deletes a target path only after explicit confirmation, the
\* --yes flag or an affirmative answer to the confirmation prompt, and
\* with --dry-run it deletes no path.
C25_DeleteOnlyConfirmed ==
  /\ pruner.deleted # << >> \/ pruner.pc = "rm"
       => pruner.args.yes \/ isTruthy(pruner.confirm)
  /\ pruner.args.dryRun => pruner.deleted = << >> /\ pruner.pc # "rm"

(***************************************************************************)
(* The order of the handshake on the stdin of a backend.                   *)
(***************************************************************************)
\* The positions in a stdin of the requests: an id and a method.
RequestsWritten(stdin) ==
  {i \in DOMAIN stdin : stdin[i].id # 0 /\ stdin[i].method # ""}

\* The positions in a stdin of the notification method.
Written(stdin, method) ==
  {i \in DOMAIN stdin : stdin[i].id = 0 /\ stdin[i].method = method}

\* The document notifications and the operation requests.
AfterHandshake(msg) ==
  \/ msg.id = 0 /\ msg.method \in {"textDocument/didOpen",
                                   "textDocument/didChange"}
  \/ msg.id # 0 /\ msg.method # "" /\ msg.method # "initialize"

\* The first request in a stdin is initialize.
InitializeFirst(stdin) ==
  \A i \in RequestsWritten(stdin) :
    (\A j \in RequestsWritten(stdin) : i <= j) => stdin[i].method = "initialize"

\* Every document notification and operation request in a stdin comes
\* after the initialized notification.
InitializedBefore(stdin) ==
  \A i \in DOMAIN stdin :
    AfterHandshake(stdin[i]) => \E j \in Written(stdin, "initialized") : j < i

\* In this step process p answers its initialize request with a result,
\* the request resolves with it and the capabilities of the result are
\* stored.
InitializeAnswered(p) ==
  \E rid \in DOMAIN requests :
    /\ requests[rid].proc = p
    /\ requests[rid].method = "initialize"
    /\ rid \notin answered
    /\ rid \in answered'
    /\ requests'[rid].outcome = "resolved"
    /\ requests'[rid].settledBy = p
    /\ requests'[rid].result.kind = "object"
    /\ state'[p].capabilities = requests'[rid].result.caps

\* C26: on the stdin of every spawned process the first request is
\* initialize, the initialized notification is written only in the step
\* where the successful response to that request is received and its
\* capability set stored, and no didOpen, didChange or operation request
\* precedes the initialized notification.
C26_HandshakeOrder ==
  [][
      \A p \in Proc :
        /\ InitializeFirst(state'[p].stdin)
        /\ InitializedBefore(state'[p].stdin)
        /\ Written(state'[p].stdin, "initialized")
             # Written(state[p].stdin, "initialized")
               => InitializeAnswered(p)
  ]_vars

(***************************************************************************)
(* The settle delay of the handshake.  A process is in phase "warmup"      *)
(* from the initialized notification until its delay has elapsed.          *)
(***************************************************************************)
InWarmup(p) == state[p].phase = "warmup"

\* C27: with a settle delay configured, the readiness flag of the instance
\* is not set (and its became-ready signal not completed) before the delay
\* has passed after the initialized notification.
C27_ReadinessHeld ==
  \A p \in Proc : InWarmup(p) => ~state[p].initialized

\* C27, amended: the flag is set and the signal completed with the
\* initialized notification, before the delay; what is held until the
\* delay has passed is the start: the instance is not registered, every
\* operation that acquires it is still waiting for the start, and no
\* document notification or operation request has been written to it.
C27_StartHeld ==
  \A p \in Proc :
    InWarmup(p) =>
      /\ config[state[p].config].warmupMs > 0
      /\ state[p].initialized
      /\ Written(state[p].stdin, "initialized") # {}
      /\ servers[state[p].config] # p
      /\ \A o \in DOMAIN ops : ops[o].proc = p => ops[o].pc = "awaitStart"
      /\ \A i \in DOMAIN state[p].stdin : ~AfterHandshake(state[p].stdin[i])

\* An operation waits for an instance whose delay is running.
C27_Witness ==
  \E p \in Proc, o \in DOMAIN ops : InWarmup(p) /\ Waiting(o, p)

\* C28: at most one didOpen is sent to a backend instance for the document
\* during the lifetime of the instance, under any interleaving of the
\* concurrent operations on the file.
C28_AtMostOneDidOpen ==
  \A p \in Proc :
    Cardinality(Written(state[p].stdin, "textDocument/didOpen")) <= 1

(***************************************************************************)
(* Concurrent opens and syncs: NumConcurrent calls in flight at once, each *)
(* a lookup or a syncFileContent, against one configured backend that      *)
(* stays alive and answers.                                                *)
(***************************************************************************)
NextSync ==
  \/ \E o \in DOMAIN ops : Call(o)
  \/ \E o \in DOMAIN ops : syncFileContent(o)
  \/ \E o \in DOMAIN ops : syncFileContentRead(o)
  \/ \E o \in DOMAIN ops : getServerForConfig(o)
  \/ \E o \in DOMAIN ops : UseState(o)
  \/ \E o \in DOMAIN ops : ensureFileOpen(o)
  \/ \E o \in DOMAIN ops : syncFileContentEach(o)
  \/ \E o \in DOMAIN ops : syncFileContentOpened(o)
  \/ \E o \in DOMAIN ops : GraceDone(o)
  \/ \E p \in Proc : BackendResponds(p)
  \/ \E p \in Proc : WarmupDone(p)

SpecSync == InitConcurrent /\ [][NextSync]_vars

\* The positions in a stdin of the didOpen and didChange notifications.
DocumentNotifications(stdin) ==
  Written(stdin, "textDocument/didOpen")
    \cup Written(stdin, "textDocument/didChange")

\* C29: the versions of the didOpen and didChange notifications written to
\* one instance for the document strictly increase in the order of
\* writing: 1 on open, then one more per change.
C29_VersionsIncrease ==
  \A p \in Proc :
    LET stdin == state[p].stdin
        docs == DocumentNotifications(stdin)
    IN /\ \A i, j \in docs : i < j => stdin[i].version < stdin[j].version
       /\ \A i \in docs :
            stdin[i].version = Cardinality({j \in docs : j <= i})
       /\ \A i \in Written(stdin, "textDocument/didOpen") :
            stdin[i].version = 1

(***************************************************************************)
(* The capability check over every capability set: one backend has been    *)
(* started by an earlier call and has negotiated the set; the calls of the *)
(* run find it registered.                                                 *)
(***************************************************************************)
\* The JSON values of a provider key, "undefined" for a key not mentioned.
CapValues == {"undefined", "null", "false", "true", "object"}

CapabilitySets == [CapKeys -> CapValues]

\* Process 1 after a handshake that negotiated caps.
Negotiated(caps) ==
  [NoState EXCEPT !.config = 1, !.alive = TRUE, !.phase = "ready",
                  !.initialized = TRUE, !.capabilities = caps,
                  !.stdin = << Msg(1, "initialize", 0, 0),
                               Msg(0, "initialized", 0, 0) >>]

InitCapability ==
  /\ config = SubSeq(configs, 1, 1)
  /\ \E caps \in CapabilitySets :
       /\ state = [p \in Proc |-> IF p = 1 THEN Negotiated(caps) ELSE NoState]
       /\ requests = << [NewRequest(1, 1, "initialize", 0) EXCEPT
                           !.outcome = "resolved",
                           !.result = [kind |-> "object", caps |-> caps,
                                       forId |-> 1],
                           !.settles = 1, !.settledBy = 1] >>
  /\ nprocs = 1
  /\ servers = [k \in Cfg |-> IF k = 1 THEN 1 ELSE 0]
  /\ serversStarting = [k \in Cfg |-> 0]
  /\ nextId = 2
  /\ pendingRequests = [x \in {} |-> 0]
  /\ timers = {}
  /\ answered = {1}
  /\ ops = [o \in 1..NumOps |-> IdleOp]
  /\ srvLog = << >>
  /\ nstray = 0
  /\ restarted = << >>
  /\ codec = NoStream
  /\ pruner = NoPrune
  /\ resolver = NoResolver
  /\ router = NoRoute
  /\ tool = NoTool
  /\ applier = NoEdit

NextCapability ==
  \/ \E o \in DOMAIN ops : Call(o)
  \/ \E o \in DOMAIN ops : getServerForConfig(o)
  \/ \E o \in DOMAIN ops : UseState(o)
  \/ \E o \in DOMAIN ops : ensureFileOpen(o)
  \/ \E o \in DOMAIN ops : GraceDone(o)
  \/ \E p \in Proc : BackendResponds(p)

SpecCapability == InitCapability /\ [][NextCapability]_vars

\* The candidates an operation call skipped at the capability check.
Denied(o) ==
  {i \in DOMAIN ops[o].tried : ops[o].tried[i].outcome = "denied"}

\* C30: the capability check denies an operation only when the negotiated
\* capability set mentions the provider key of the operation and denies
\* it: with an empty set, and with a non-empty set that does not mention
\* the key, the operation is not denied.
C30_DeniesOnlyExplicit ==
  \A o \in DOMAIN ops :
    \A i \in Denied(o) :
      state[ops[o].tried[i].proc].capabilities[OpCapability(ops[o].kind)]
        # "undefined"

(***************************************************************************)
(* Workspace root detection (detectWorkspaceRootFromDir and                *)
(* getWorkspaceRootForFile).  The directories are a chain: directory 0 is  *)
(* the filesystem root and dirname(d) is d - 1.  markers[d + 1] is the set *)
(* of lower-cased entry names of directory d; the file system does not     *)
(* change.  A lookup is one call of getWorkspaceRootForFile; its walk is   *)
(* suspended at readdir, so lookups overlap.                               *)
(***************************************************************************)
MaxDepth == 2

MaxLookups == 2

Dirs == 0..MaxDepth

NoRootDir == 0 - 1

EntryNames == {"app.sln", "pyproject.toml", ".git"}

FileSystems == [1..(MaxDepth + 1) -> SUBSET EntryNames]

\* getLanguageId(filePath) over the extensions of the model.
getLanguageId(ext) ==
  CASE ext = "cs" -> "csharp"
    [] ext = "py" -> "python"
    [] ext = "md" -> "markdown"
    [] OTHER -> ext

FileExtensions == {"cs", "py", "md"}

\* dirname(current)
dirname(d) == IF d = 0 THEN 0 ELSE d - 1

\* workspaceRootCacheKey(languageId, directory)
workspaceRootCacheKey(languageId, directory) == << languageId, directory >>

\* The marker tests of the loop body for the names of one directory.
hasRootMarker(names, lang) ==
  \/ lang = "csharp" /\ "app.sln" \in names
  \/ lang = "python" /\ "pyproject.toml" \in names
  \/ ".git" \in names

\* The loop of detectWorkspaceRootFromDir from current on: the directory
\* it returns and the directories it visited.
RECURSIVE walkUp(_, _, _, _, _)
walkUp(fs, start, current, lang, visited) ==
  LET seen == visited \cup {current}
  IN IF hasRootMarker(fs[current + 1], lang)
     THEN [root |-> current, visited |-> seen]
     ELSE IF dirname(current) = current
     THEN [root |-> start, visited |-> seen]
     ELSE walkUp(fs, start, dirname(current), lang, seen)

\* A cache with the entries of the visited directories set to root.
cacheSetAll(cache, lang, visited, root) ==
  LET keys == {workspaceRootCacheKey(lang, d) : d \in visited}
  IN [k \in (DOMAIN cache) \cup keys |->
        IF k \in keys THEN root ELSE cache[k]]

\* getWorkspaceRootForFile(filePath, serverConfig) up to the first readdir
\* of the walk: the pinned root, the cached answer, or the walk begins.
getWorkspaceRootForFile(dir, ext, rootDir) ==
  /\ Len(resolver.lookups) < MaxLookups
  /\ LET languageId == getLanguageId(ext)
         cacheKey == workspaceRootCacheKey(languageId, dir)
         lookup == [start |-> dir, languageId |-> languageId,
                    rootDir |-> rootDir, cold |-> FALSE, pc |-> "done",
                    result |-> 0]
     IN resolver' = [resolver EXCEPT !.lookups = Append(@,
          IF rootDir # NoRootDir THEN [lookup EXCEPT !.result = rootDir]
          ELSE IF cacheKey \in DOMAIN resolver.cache
          THEN [lookup EXCEPT !.result = resolver.cache[cacheKey]]
          ELSE [lookup EXCEPT !.pc = "walking", !.cold = TRUE])]
  /\ UNCHANGED << client, codec, router, tool, applier, pruner >>

\* The readdirs of a walk have settled: the visited directories are
\* cached and the root is returned.
detectWorkspaceRootFromDir(i) ==
  /\ resolver.lookups[i].pc = "walking"
  /\ LET l == resolver.lookups[i]
         w == walkUp(resolver.markers, l.start, l.start, l.languageId, {})
     IN resolver' = [resolver EXCEPT
          !.cache = cacheSetAll(@, l.languageId, w.visited, w.root),
          !.lookups[i] = [l EXCEPT !.pc = "done", !.result = w.root]]
  /\ UNCHANGED << client, codec, router, tool, applier, pruner >>

InitResolver ==
  /\ NoClient
  /\ codec = NoStream
  /\ router = NoRoute
  /\ tool = NoTool
  /\ applier = NoEdit
  /\ pruner = NoPrune
  /\ \E fs \in FileSystems : resolver = [NoResolver EXCEPT !.markers = fs]

NextResolver ==
  \/ \E dir \in Dirs, ext \in FileExtensions, rootDir \in {NoRootDir} \cup Dirs :
       getWorkspaceRootForFile(dir, ext, rootDir)
  \/ \E i \in DOMAIN resolver.lookups : detectWorkspaceRootFromDir(i)

SpecResolver == InitResolver /\ [][NextResolver]_vars

\* The nearest directory, from start upward, that holds a marker of the
\* family or the version-control marker; start when there is none.
NearestRoot(start, lang) ==
  LET hits == {d \in 0..start : hasRootMarker(resolver.markers[d + 1], lang)}
  IN IF hits = {} THEN start
     ELSE CHOOSE d \in hits : \A e \in hits : e <= d

\* C31: without a pinned root and with the file system unchanged, every
\* lookup, whatever lookups were made before it, returns the nearest
\* directory upward from the file's directory that holds a marker of the
\* family or the version-control marker, and the file's own directory when
\* no directory up to the filesystem root holds one.
C31_ResolveNearestRoot ==
  \A i \in DOMAIN resolver.lookups :
    LET l == resolver.lookups[i]
    IN l.pc = "done" /\ l.rootDir = NoRootDir
         => l.result = NearestRoot(l.start, l.languageId)

\* The instances registered and running when the handler answers.
Running == {p \in Proc : state[p].alive /\ \E k \in DOMAIN config : servers[k] = p}

\* C32: a rename without dry_run whose edit was applied to disk answers
\* with the modified files and the backups only after the modified file
\* has been re-synced to every running backend that routes it: a didOpen
\* or didChange written after the disk write and carrying the content the
\* file has on disk after the edit.
C32_RenameReturnsAfterSync ==
  tool.response = "renamed" =>
    /\ ~tool.dry_run
    /\ applier.result.success
    /\ \A f \in Paths : applier.tmp[f] = Missing
    /\ applier.filesModified # << >> =>
         \A p \in Running :
           /\ \E i \in DocumentNotifications(state[p].stdin) :
                i > tool.appliedAt[p]
           /\ state[p].text = applier.files[1].content

\* The handler has answered a rename that modified the file, a backend is
\* running, and the content on disk differs from the original.
C32_Witness ==
  /\ tool.response = "renamed"
  /\ applier.filesModified # << >>
  /\ applier.files # applier.original
  /\ Running # {}

\* C33: the timeout of the initialize request is strictly longer than the
\* timeout of every operation request (definition, references, rename,
\* documentSymbol).
C33_HandshakeTimeoutLonger ==
  \A i, j \in DOMAIN requests :
    requests[i].method = "initialize" /\ requests[j].method # "initialize"
      => requests[i].timeoutMs > requests[j].timeoutMs

(***************************************************************************)
(* Liveness of the requests.  The timer that sendRequest arms is a timer   *)
(* of the event loop: once armed it fires unless it is cleared, whatever   *)
(* the backend does.  Here the timers fire without a budget, and the       *)
(* budget of faults bounds the exits only.                                 *)
(***************************************************************************)
NextLive ==
  \/ \E o \in DOMAIN ops : Call(o)
  \/ \E o \in DOMAIN ops : getServerForConfig(o)
  \/ \E o \in DOMAIN ops : UseState(o)
  \/ \E o \in DOMAIN ops : ensureFileOpen(o)
  \/ \E o \in DOMAIN ops : GraceDone(o)
  \/ \E p \in Proc : BackendResponds(p)
  \/ \E p \in Proc : Exit(p)
  \/ \E p \in Proc : WarmupDone(p)
  \/ \E rid \in DOMAIN requests : TimerFires(rid)

SpecLive ==
  /\ Init
  /\ [][NextLive]_vars
  /\ \A rid \in 1..MaxId : WF_vars(TimerFires(rid))

\* The request of index rid has been sent and its promise is pending.
Pending(rid) ==
  rid \in DOMAIN requests /\ requests[rid].outcome = "pending"

\* The request of index rid has settled and its id is not in the map.
Settled(rid) ==
  /\ rid \in DOMAIN requests
  /\ requests[rid].outcome # "pending"
  /\ requests[rid].id \notin DOMAIN pendingRequests

\* C34: every request sent with sendRequest eventually settles, also when
\* the backend never answers or exits while the request is in flight, and
\* its entry does not stay in the pending-request map.
C34_RequestsSettle ==
  \A rid \in 1..MaxId : Pending(rid) ~> Settled(rid)

\* A request whose process exited while it was in flight has been settled
\* by its timer.
C34_Witness ==
  \E rid \in DOMAIN requests :
    /\ requests[rid].orphaned
    /\ requests[rid].outcome = "timeout"
    /\ requests[rid].id \notin DOMAIN pendingRequests

(***************************************************************************)
(* The document is opened on a backend before it is queried.               *)
(***************************************************************************)
\* The methods of the operation requests about a document.
OpMethods == {OpMethod(k) : k \in OpKinds}

\* Every operation request in a stdin comes after a didOpen notification.
OpenedBefore(stdin) ==
  \A i \in RequestsWritten(stdin) :
    stdin[i].method \in OpMethods
      => \E j \in Written(stdin, "textDocument/didOpen") : j < i

\* C35: every definition, references, rename or document-symbol request
\* for the document is written to a backend process only after a didOpen
\* notification for the document was written to that same process.
C35_OpenBeforeRequest ==
  \A p \in Proc : OpenedBefore(state[p].stdin)

\* An operation request was written to a process on which the document was
\* already open when the operation reached it: ensureFileOpen returned
\* false and no didOpen was written by that operation.
C35_Witness ==
  \E p \in Proc :
    /\ Cardinality({i \in RequestsWritten(state[p].stdin) :
                       state[p].stdin[i].method \in OpMethods}) >= 2
    /\ Cardinality(Written(state[p].stdin, "textDocument/didOpen")) = 1

(***************************************************************************)
(* A rename whose symbol name matches several declarations.                *)
(***************************************************************************)
\* The declarations of the document that match the name and kind of the
\* call.
Declarations ==
  findSymbolsByName(tool.symbols, tool.symbol_name, tool.symbol_kind)

\* The rename requests written to process p.
RenamesWritten(p) ==
  {i \in RequestsWritten(Stdin(p)) : Stdin(p)[i].method = OpMethod("rename")}

\* C36: when more than one declaration matches the symbol name of a rename,
\* no textDocument/rename request is sent to any backend, no file on disk
\* is modified and no backup is created; the handler answers with the
\* candidate locations, or with no symbol when the lookup itself failed.
C36_AmbiguousRenameChangesNothing ==
  Len(Declarations) > 1 =>
    /\ \A p \in Proc : RenamesWritten(p) = {}
    /\ applier.files = applier.original
    /\ \A f \in Paths : applier.backups[f] = Missing /\ applier.tmp[f] = Missing
    /\ tool.response \in {"none", "ambiguous", "noSymbols"}
    /\ tool.response = "noSymbols" => ops[1].status # "ok"
    /\ tool.response = "ambiguous" =>
         /\ Len(tool.candidates) = Len(Declarations)
         /\ \A i \in DOMAIN Declarations :
              /\ tool.candidates[i].line = Declarations[i].position + 1
              /\ tool.candidates[i].kind
                   = symbolKindToString(Declarations[i].kind)

\* A rename that is not a dry run, for which the backend would answer with
\* an edit of the file, has answered with two candidates.
C36_Witness ==
  /\ tool.response = "ambiguous"
  /\ Len(tool.candidates) = 2
  /\ ~tool.dry_run
  /\ Len(tool.edit) = 1
  /\ \E p \in Proc : \E i \in RequestsWritten(Stdin(p)) :
       Stdin(p)[i].method = OpMethod("documentSymbol")

(***************************************************************************)
(* What the exit notification of a process removes.                        *)
(***************************************************************************)
\* In this step the exit notification of process p is delivered.
ExitDelivered(p) ==
  state[p].alive /\ ~state'[p].alive

\* C37: the exit notification of a backend process removes from the
\* registry and from the in-flight start map only that process's own
\* instance or start: the entries of its key that belong to a newer process
\* are left as they are.
C37_ExitRemovesOwnEntriesOnly ==
  [][\A p \in Proc : ExitDelivered(p) =>
       LET k == state[p].config
       IN /\ servers[k] # p => servers'[k] = servers[k]
          /\ serversStarting[k] # p
               => serversStarting'[k] = serversStarting[k]]_vars

(***************************************************************************)
(* The processes of one uniqueness key.                                    *)
(***************************************************************************)
\* The spawned processes of key k that have not exited.
NotExited(k) ==
  {p \in 1..nprocs : state[p].config = k /\ state[p].alive}

\* C38: at any time at most one not-yet-exited backend process spawned by
\* the coordinator exists per uniqueness key, counting the registered
\* processes, those in their handshake and those whose handshake failed or
\* timed out.
C38_OneProcessPerKey ==
  \A k \in Cfg : Cardinality(NotExited(k)) <= 1

(***************************************************************************)
(* The requests of one call to one backend process.                        *)
(***************************************************************************)
\* The positions in the stdin of process p of the operation requests that
\* call o has written.
SentBy(o, p) ==
  {i \in RequestsWritten(state[p].stdin) :
     /\ state[p].stdin[i].op = o
     /\ state[p].stdin[i].method = OpMethod(ops[o].kind)}

\* C39: within one definition, references or rename call, each routed
\* backend is sent the request of the operation at most once, also when
\* every candidate fails or is skipped.
C39_OneRequestPerBackend ==
  \A o \in DOMAIN ops : \A p \in Proc :
    ops[o].kind \in {"definition", "references", "rename"}
      => Cardinality(SentBy(o, p)) <= 1

(***************************************************************************)
(* The edits a backend answers a rename with, in either form, and what a   *)
(* rename that reports success has written.                                *)
(***************************************************************************)
\* The entries of the workspace edit of the backend: those of its changes
\* map and those of its documentChanges.
AnsweredEntries == tool.edit \o tool.documentChanges

\* The content of the file of an entry after its edits, from the content
\* the file had before the call.
Edited(entry) ==
  applyTextEditsToContent(applier.original[entry.path].content,
                          entry.edits).text

\* C40: a rename that is not a dry run and reports success has applied to
\* disk every text edit of the workspace edit the backend returned, in the
\* changes map or in documentChanges form; success with an empty list of
\* modified files is reported only when the edit contains no text edit.
C40_SuccessAppliesEveryEdit ==
  tool.response = "renamed" =>
    /\ \A i \in DOMAIN AnsweredEntries :
         applier.files[AnsweredEntries[i].path].content
           = Edited(AnsweredEntries[i])
    /\ applier.filesModified = << >>
         => \A i \in DOMAIN AnsweredEntries : AnsweredEntries[i].edits = << >>

====
